---------------------------- MODULE Spec2Model ----------------------------
(***************************************************************************)
(* A model of the Agentic AI System (main.py, main_enhanced.py):           *)
(*   - APIIntegration, the tiered service router (camel_ai, llm7, local),  *)
(*     its startup probe, its per-tier statistics and its local fallback;  *)
(*   - BaseAgent, the agent lifecycle (initialize, execute_task) and the   *)
(*     system's shutdown.                                                  *)
(* Coroutines are cut at their suspension points (the awaited network      *)
(* calls and the awaited setup hook); everything between two suspension    *)
(* points is one atomic step, as on the asyncio event loop.                *)
(***************************************************************************)
EXTENDS Integers, Sequences, FiniteSets, TLC

(***************************************************************************)
(* Bounds of the model.                                                    *)
(***************************************************************************)
\* generate_response is not started once this many tier requests are counted
MaxRequests == 3

\* an agent is not called once its completed tasks and logged errors reach this
MaxAgentOps == 2

\* a scenario's 'rounds', when given, is at most this
MaxRounds == 2

\* a scenario has at most this many participants
MaxParticipants == 2

\* at most this many cycles of a system loop end in its Exception handler
MaxFaults == 3

\* the remote tiers fail at most this many requests while the whole system
\* is followed
MaxPostFailures == 2

\* tasks are given to the maintained agent until its error log holds this many
MaxErrorLog == 11

\* ... or until it has completed this many
MaxConversationLog == 21

\* the clock that stamps the entries of the memory bus stops here
MaxClock == 2

\* a simulated scenario's 'rounds', when given, is at most this
MaxSimulatedRounds == 6

\* a topic has at most this many subscribers
MaxSubscribers == 2

\* main.py's loop, which is `while True`, is followed for this many cycles
MaxMainCycles == 12

(***************************************************************************)
(* Values.                                                                 *)
(***************************************************************************)
\* the keys of APIIntegration.stats (main_enhanced.py 58-62)
Tiers == {"camel_ai", "llm7", "local"}

\* the remote tiers, probed at startup
RemoteTiers == {"camel_ai", "llm7"}

\* APIConfig.camel_ai_key / llm7_key: the placeholder or a configured secret
Keys == {"demo_key", "real_key"}

\* AgentConfig.api_preference: the documented values and one other string
Preferences == {"auto", "camel", "llm7", "local", "camel_ai"}

\* AgentConfig.capabilities: a list of strings or, as nothing enforces the
\* annotation, another value. `iterable`: the `in` tests of use_local work on
\* it (they raise TypeError on None); `joinable`: ", ".join works on it (it
\* raises TypeError on None and on a list holding a non-string); `items`: the
\* strings it holds.
Caps(items) == [iterable |-> TRUE, joinable |-> TRUE, items |-> items]

\* capabilities = None
NoCaps == [iterable |-> FALSE, joinable |-> FALSE, items |-> {}]

\* capabilities = ["coding", 1]
MixedCaps == [iterable |-> TRUE, joinable |-> FALSE, items |-> {"coding"}]

CapabilityInputs ==
    { Caps({"shell", "automation"}), Caps({"ui_design", "security"}),
      Caps({"auth", "security"}), Caps({"agent_creation", "management"}),
      MixedCaps, NoCaps }

\* what the probe's session.get can do: status 200, another status, an exception
ProbeOutcomes == {"status_200", "status_other", "raised"}

\* what the request's session.post / response.json() can do
PostOutcomes ==
    {"ok", "missing_fields", "bad_json", "status_other", "transport_error", "timeout"}

\* clients that call generate_response directly, each one coroutine
Clients == {"c1", "c2"}

\* AgentConfig(name, type, capabilities, api_preference=...)
AgentConfig(name, type, capabilities, api_preference) ==
    [name |-> name, type |-> type, api_preference |-> api_preference,
     capabilities |-> Caps(capabilities)]

\* initialize_agents' list (main_enhanced.py 700-715; main.py 369-384 has the
\* same names, types and capabilities)
agent_list ==
    << AgentConfig("cybershell", "dev_engine", {"shell", "automation"}, "auto"),
       AgentConfig("agent_maker", "agent_creator", {"agent_creation", "management"}, "camel"),
       AgentConfig("ui_designer", "designer", {"ui_design", "ux"}, "llm7"),
       AgentConfig("dev_engine", "developer", {"coding", "nextjs", "react"}, "auto"),
       AgentConfig("data_sync", "data_manager", {"sync", "storage"}, "local"),
       AgentConfig("fullstack_dev", "developer", {"frontend", "backend"}, "camel"),
       AgentConfig("commander_agi", "commander", {"coordination", "leadership"}, "auto"),
       AgentConfig("quality_control", "tester", {"testing", "quality"}, "llm7"),
       AgentConfig("bug_hunter", "debugger", {"debugging", "fixing"}, "auto"),
       AgentConfig("money_maker", "financial", {"monetization", "optimization"}, "camel"),
       AgentConfig("backup_colony", "backup", {"backup", "recovery"}, "local"),
       AgentConfig("authentication", "security", {"auth", "security"}, "llm7"),
       AgentConfig("knowledge_manager", "knowledge", {"learning", "documentation"}, "auto"),
       AgentConfig("marketing", "marketing", {"promotion", "growth"}, "camel") >>

\* the order of initialize_agents' list, which is the order of self.agents
agent_order == [i \in DOMAIN agent_list |-> agent_list[i].name]

\* the names of the agents
Agents == {agent_order[i] : i \in DOMAIN agent_order}

\* the config of each agent
agent_configs ==
    [a \in Agents |-> agent_list[CHOOSE i \in DOMAIN agent_list : agent_list[i].name = a]]

\* the agent instance that is called in any order: a BaseAgent
Instance == "commander_agi"

\* the registered agent whose logs are filled and maintained
Maintained == "data_sync"

\* the scenario coordinator, create_multi_agent_scenario, as a caller of
\* generate_response
Coordinator == "coordinator"

Callers == Clients \cup Agents \cup {Coordinator}

\* the task handed to execute_task: a dict, or a value without .get
TaskInputs == {"task", "not_a_dict"}

\* what the awaited setup hook does
SetupOutcomes == {"ok", "raises"}

\* what the awaited _process_task_result hook does: the base class returns
\* result['content'], an override may raise
ProcessOutcomes == {"ok", "raises"}

NoReturn == [value |-> "none", api_used |-> "", error |-> ""]

NoResult == [success |-> FALSE, content |-> "", api_used |-> "", model |-> ""]

IdleCall ==
    [pc |-> "idle", preference |-> "", capabilities |-> Caps({}),
     selected |-> "", result |-> NoResult, error |-> ""]

\* the scenario dict: 'title', 'description' and 'rounds' may be absent
ScenarioInputs ==
    { [has_title |-> t, has_description |-> d, has_rounds |-> TRUE, rounds |-> r] :
          t \in BOOLEAN, d \in BOOLEAN, r \in 0..MaxRounds }
    \cup { [has_title |-> t, has_description |-> d, has_rounds |-> FALSE, rounds |-> 0] :
              t \in BOOLEAN, d \in BOOLEAN }

\* the scenarios handed to the local simulation: more rounds than canned
\* responses
SimulationInputs ==
    { [has_title |-> t, has_description |-> d, has_rounds |-> TRUE, rounds |-> r] :
          t \in BOOLEAN, d \in BOOLEAN, r \in 0..MaxSimulatedRounds }
    \cup { [has_title |-> t, has_description |-> d, has_rounds |-> FALSE, rounds |-> 0] :
              t \in BOOLEAN, d \in BOOLEAN }

ParticipantNames == <<"p1", "p2", "p3", "p4">>

ParticipantRoles == <<"r1", "r2", "r3", "r4">>

\* a participant dict: 'role' may be absent; 'capabilities' absent (then [])
\* or None
ParticipantInputs(i) ==
    { [name |-> ParticipantNames[i], has_role |-> r,
       role |-> IF r THEN ParticipantRoles[i] ELSE "", capabilities |-> k] :
          r \in BOOLEAN, k \in {Caps({}), NoCaps} }

\* the participant lists: the i-th one is named ParticipantNames[i]
ParticipantLists ==
    UNION { { ps \in [1..n -> UNION {ParticipantInputs(i) : i \in 1..n}] :
                 \A i \in 1..n : ps[i] \in ParticipantInputs(i) } :
            n \in 0..MaxParticipants }

\* no session: nothing was returned to the caller
NoSession ==
    [scenario |-> [has_title |-> FALSE, has_description |-> FALSE, has_rounds |-> FALSE,
                   rounds |-> 0],
     agents |-> << >>, messages |-> << >>, status |-> "none", error |-> "",
     has_end_time |-> FALSE]

\* where the coordinator stands, and the prompts it has built for
\* generate_response so far
IdleScenario == [pc |-> "idle", path |-> "", round_num |-> 0, index |-> 0, prompts |-> << >>]

\* the scenario and the participants of run_enhanced_demo
demo_scenario ==
    [has_title |-> TRUE, has_description |-> TRUE, has_rounds |-> TRUE, rounds |-> 3]

demo_agents ==
    << [name |-> "Lead Developer", has_role |-> TRUE, role |-> "Technical Leadership",
        capabilities |-> Caps({"architecture", "coding"})],
       [name |-> "UI Designer", has_role |-> TRUE, role |-> "User Experience",
        capabilities |-> Caps({"design", "user_research"})],
       [name |-> "Security Expert", has_role |-> TRUE, role |-> "Security Review",
        capabilities |-> Caps({"security", "testing"})] >>

\* simulate_local_scenario's canned responses
responses ==
    << "I believe we should take a systematic approach to this challenge...",
       "From my analysis, the key factors to consider are...",
       "I propose we divide the problem into manageable components...",
       "Building on the previous points, I would add...",
       "Let me offer an alternative perspective on this issue..." >>

\* run_system_loop: while loop_count < 10
cycle_limit == 10

\* keys the systems store under
MemoryKeys == {"system_start_time", "active_agents"}

\* the keys main.py's monitor_agents stores the metrics under
MetricKeys == {"active_agents", "total_tasks_completed"}

\* Python values, each with the class it is an instance of
PyNone == [class |-> "NoneType", repr |-> "None"]

PyValues ==
    { [class |-> "int", repr |-> "14"], [class |-> "str", repr |-> "14"],
      [class |-> "bool", repr |-> "True"], [class |-> "datetime", repr |-> "now"],
      PyNone }

\* a key that self.data does not hold
NoEntry == [present |-> FALSE, value |-> PyNone, timestamp |-> 0, type |-> ""]

\* OS threads that call store and retrieve on one memory bus
Threads == {"t1", "t2"}

\* a key the dict cannot hash (a list): self.data[key] = ... and
\* self.data.get(key, ...) raise TypeError
UnhashableKey == "unhashable_key"

ThreadKeys == MemoryKeys \cup {UnhashableKey}

\* the values the threads store
ThreadValues == { [class |-> "int", repr |-> "14"], [class |-> "str", repr |-> "14"] }

\* a thread that is in neither operation
IdleThread == [pc |-> "idle", op |-> "", key |-> "", value |-> PyNone, outcome |-> ""]

\* the topics messages are published on
Topics == {"metrics", "alerts"}

\* the messages published
Messages == {"m1", "m2"}

\* a subscriber callback: it returns, or raises an Exception
Callbacks == { [name |-> n, raises |-> r] : n \in {"s1", "s2"}, r \in BOOLEAN }

\* RECURSIVE-free enumeration of the lists of at most n callbacks
CallbackLists(n) == UNION { [1..k -> Callbacks] : k \in 0..n }

\* self.subscribers[topic]: no such key, or a list of callbacks
NoTopic == [registered |-> FALSE, callbacks |-> << >>]

SubscriberInputs ==
    {NoTopic} \cup { [registered |-> TRUE, callbacks |-> l] : l \in CallbackLists(MaxSubscribers) }

\* no publish was called yet
NoPublish == [outcome |-> "none", topic |-> "", message |-> ""]

\* what the prints of show_enhanced_status do: they write to stdout, which
\* may raise OSError
StatusOutcomes == {"printed", "raises"}

\* the phases of one cycle of the enhanced loop
Phases == {"dispatch", "maintenance", "status"}

\* the record of a cycle that has not dispatched yet
NoCycle == [dispatched |-> << >>, active_at_dispatch |-> {}, phases |-> {}]

VARIABLES
    camel_ai_key,       \* APIConfig.camel_ai_key
    llm7_key,           \* APIConfig.llm7_key
    camel_ai_enabled,   \* APIIntegration.camel_ai_enabled
    llm7_enabled,       \* APIIntegration.llm7_enabled
    stats,              \* APIIntegration.stats
    init_pc,            \* where APIIntegration.initialize stands
    probe_calls,        \* session.get calls made by the probe, per remote tier
    probe_result,       \* what each probe ended with
    calls,              \* the generate_response coroutine of each caller
    status,             \* BaseAgent.status, per agent
    tasks_completed,    \* BaseAgent.tasks_completed, per agent
    errors,             \* BaseAgent.errors, per agent
    conversations,      \* BaseAgent.conversations, per agent
    agent_pc,           \* where the agent's running coroutine stands
    agent_ret,          \* what the agent's last call returned
    agents,             \* EnhancedAgenticAISystem.agents: the registered names
    session,            \* the session create_multi_agent_scenario builds and returns
    scenario_pc,        \* where create_multi_agent_scenario stands
    loop_pc,            \* where main / run_system_loop stands
    loop_count,         \* run_system_loop's loop_count
    cycle,              \* the current cycle: agents given a task, the agents
                        \* active at dispatch, the phases completed
    faults,             \* cycles that ended in the handler of run_system_loop
    multi_agent_sessions, \* EnhancedAgenticAISystem.multi_agent_sessions
    data,               \* MemoryBus.data
    clock,              \* what datetime.now() returns
    retrieved,          \* the last MemoryBus.retrieve: its key, what it returned
    subscribers,        \* MemoryBus.subscribers
    delivered,          \* the callbacks the last publish invoked, in order
    published,          \* the last publish: its arguments and how it ended
    lock,               \* MemoryBus.lock: whether it is held
    threads,            \* per thread: the operation it is in and where it stands
    post_outcome        \* per caller: how its last awaited session.post ended

routerVars ==
    <<camel_ai_key, llm7_key, camel_ai_enabled, llm7_enabled, stats, init_pc,
      probe_calls, probe_result, calls>>

agentVars ==
    <<status, tasks_completed, errors, conversations, agent_pc, agent_ret, agents>>

scenarioVars == <<session, scenario_pc>>

loopVars == <<loop_pc, loop_count, cycle, faults, multi_agent_sessions>>

memoryVars == <<data, clock, retrieved>>

publishVars == <<subscribers, delivered, published>>

threadVars == <<lock, threads>>

vars == <<routerVars, agentVars, scenarioVars, loopVars, memoryVars, publishVars,
          threadVars, post_outcome>>

\* the variables an action of the router leaves alone
outsideRouter == <<agentVars, scenarioVars, loopVars, memoryVars, publishVars, threadVars,
                   post_outcome>>

\* the variables the router leaves alone when the wait for a remote tier ends
outsideSession == <<agentVars, scenarioVars, loopVars, memoryVars, publishVars, threadVars>>

\* the variables an action of an agent leaves alone, the router's apart
outsideAgents == <<camel_ai_key, llm7_key, camel_ai_enabled, llm7_enabled, init_pc,
                   probe_calls, probe_result, scenarioVars, loopVars, memoryVars,
                   publishVars, threadVars, post_outcome>>

\* the variables an action of the scenario coordinator leaves alone, the
\* router's apart
outsideScenario == <<camel_ai_key, llm7_key, camel_ai_enabled, llm7_enabled, init_pc,
                     probe_calls, probe_result, agentVars, loopVars, memoryVars,
                     publishVars, threadVars, post_outcome>>

\* the variables a step of the system loop leaves alone, the agents' and the
\* router's statistics apart
outsideLoop == <<camel_ai_key, llm7_key, camel_ai_enabled, llm7_enabled, init_pc,
                 probe_calls, probe_result, scenarioVars, memoryVars, publishVars,
                 threadVars, post_outcome>>

\* the variables an action of the memory bus leaves alone
outsideMemory == <<routerVars, agentVars, scenarioVars, loopVars, publishVars,
                   threadVars, post_outcome>>

\* the variables publish leaves alone
outsidePublish == <<routerVars, agentVars, scenarioVars, loopVars, memoryVars,
                    threadVars, post_outcome>>

\* the variables a thread of the memory bus leaves alone, data and retrieved
\* apart
outsideThreads == <<routerVars, agentVars, scenarioVars, loopVars, publishVars, clock,
                    post_outcome>>

(***************************************************************************)
(* APIIntegration: statistics.                                             *)
(***************************************************************************)
\* self.stats[tier][counter] += 1
bump(st, tier, counter) ==
    [st EXCEPT ![tier] = [@ EXCEPT ![counter] = @ + 1]]

\* sum(api[counter] for api in self.stats.values())
RECURSIVE sum_over(_, _, _)
sum_over(st, counter, tiers) ==
    IF tiers = {} THEN 0
    ELSE LET t == CHOOSE x \in tiers : TRUE
         IN  st[t][counter] + sum_over(st, counter, tiers \ {t})

\* get_stats, were the totals to leave the local tier out
get_stats_remote_only ==
    [apis |-> [camel_ai |-> [enabled |-> camel_ai_enabled, stats |-> stats["camel_ai"]],
               llm7     |-> [enabled |-> llm7_enabled, stats |-> stats["llm7"]],
               local    |-> [stats |-> stats["local"]]],
     total_requests |-> sum_over(stats, "requests", RemoteTiers),
     total_success  |-> sum_over(stats, "success", RemoteTiers),
     total_errors   |-> sum_over(stats, "errors", RemoteTiers)]

\* get_stats: the flags and the counters of the remote tiers, the counters of
\* the local tier (its dict has no 'enabled' key), and the three totals
get_stats ==
    [apis |-> [camel_ai |-> [enabled |-> camel_ai_enabled, stats |-> stats["camel_ai"]],
               llm7     |-> [enabled |-> llm7_enabled, stats |-> stats["llm7"]],
               local    |-> [stats |-> stats["local"]]],
     total_requests |-> sum_over(stats, "requests", DOMAIN stats),
     total_success  |-> sum_over(stats, "success", DOMAIN stats),
     total_errors   |-> sum_over(stats, "errors", DOMAIN stats)]

(***************************************************************************)
(* APIIntegration: selection and the three tiers.                          *)
(***************************************************************************)
\* select_api, were 'camel' to skip the reachability test
select_api_ignores_reachability(preference) ==
    IF preference = "camel" THEN "camel_ai"
    ELSE IF preference = "llm7" /\ llm7_enabled THEN "llm7"
    ELSE IF preference = "auto"
         THEN IF camel_ai_enabled THEN "camel_ai"
              ELSE IF llm7_enabled THEN "llm7"
              ELSE "local"
    ELSE "local"

\* select_api, were 'auto' to try the primary tier only
select_api_auto_primary_only(preference) ==
    IF preference = "camel" /\ camel_ai_enabled THEN "camel_ai"
    ELSE IF preference = "llm7" /\ llm7_enabled THEN "llm7"
    ELSE IF preference = "auto"
         THEN IF camel_ai_enabled THEN "camel_ai" ELSE "local"
    ELSE "local"

select_api(preference) ==
    IF preference = "camel" /\ camel_ai_enabled THEN "camel_ai"
    ELSE IF preference = "llm7" /\ llm7_enabled THEN "llm7"
    ELSE IF preference = "auto"
         THEN IF camel_ai_enabled THEN "camel_ai"
              ELSE IF llm7_enabled THEN "llm7"
              ELSE "local"
    ELSE "local"

\* the capability bucket whose canned text use_local appends
local_content(capabilities) ==
    IF "coding" \in capabilities.items \/ "nextjs" \in capabilities.items THEN "code"
    ELSE IF "ui_design" \in capabilities.items THEN "design"
    ELSE IF "security" \in capabilities.items THEN "security"
    ELSE IF "agent_creation" \in capabilities.items THEN "agent"
    ELSE "general"

\* What a tier coroutine ends with: the statistics it leaves, and either the
\* result it returns or the exception it raises.
Returned(st, result) == [stats |-> st, raised |-> FALSE, result |-> result, error |-> ""]

Raised(st, error) == [stats |-> st, raised |-> TRUE, result |-> NoResult, error |-> error]

\* use_local, were a success to clear the tier's error counter
use_local_resets_errors(st, capabilities) ==
    LET st1 == bump(st, "local", "requests")
    IN  IF ~capabilities.iterable
        THEN Raised(bump(st1, "local", "errors"), "Local processing failed")
        ELSE Returned([bump(st1, "local", "success") EXCEPT !["local"].errors = 0],
                      [success |-> TRUE, content |-> local_content(capabilities),
                       api_used |-> "local", model |-> "local-ai"])

\* use_local has no suspension point: it runs to its end in one step
use_local(st, capabilities) ==
    LET st1 == bump(st, "local", "requests")
    IN  IF ~capabilities.iterable
        THEN Raised(bump(st1, "local", "errors"), "Local processing failed")
        ELSE Returned(bump(st1, "local", "success"),
                      [success |-> TRUE, content |-> local_content(capabilities),
                       api_used |-> "local", model |-> "local-ai"])

\* use_camel_ai up to its suspension at session.post
use_camel_ai_request(st) == bump(st, "camel_ai", "requests")

\* use_camel_ai when building the payload raises: nothing is sent
use_camel_ai_unsent(st) ==
    Raised(bump(use_camel_ai_request(st), "camel_ai", "errors"), "Camel AI request failed")

\* use_camel_ai from the answer of session.post to its end
use_camel_ai(st, outcome) ==
    IF outcome = "ok"
    THEN Returned(bump(st, "camel_ai", "success"),
                  [success |-> TRUE, content |-> "camel_ai_text",
                   api_used |-> "camel_ai", model |-> "gpt-3.5-turbo"])
    ELSE IF outcome = "missing_fields"
    THEN \* status 200 and a JSON body: success is counted, then building the
         \* result raises KeyError, which the handler counts as an error
         Raised(bump(bump(st, "camel_ai", "success"), "camel_ai", "errors"),
                "Camel AI request failed")
    ELSE Raised(bump(st, "camel_ai", "errors"), "Camel AI request failed")

\* use_llm7 up to its suspension at session.post
use_llm7_request(st) == bump(st, "llm7", "requests")

\* use_llm7 when building the payload raises: nothing is sent
use_llm7_unsent(st) ==
    Raised(bump(use_llm7_request(st), "llm7", "errors"), "LLM7 request failed")

\* use_llm7, were a timeout not counted as an error of the tier
use_llm7_timeout_uncounted(st, outcome) ==
    IF outcome = "ok"
    THEN Returned(bump(st, "llm7", "success"),
                  [success |-> TRUE, content |-> "llm7_text",
                   api_used |-> "llm7", model |-> "llm7-medium"])
    ELSE IF outcome = "missing_fields"
    THEN Raised(bump(bump(st, "llm7", "success"), "llm7", "errors"),
                "LLM7 request failed")
    ELSE IF outcome = "timeout"
    THEN Raised(st, "LLM7 request failed")
    ELSE Raised(bump(st, "llm7", "errors"), "LLM7 request failed")

\* use_llm7 from the answer of session.post to its end
use_llm7(st, outcome) ==
    IF outcome = "ok"
    THEN Returned(bump(st, "llm7", "success"),
                  [success |-> TRUE, content |-> "llm7_text",
                   api_used |-> "llm7", model |-> "llm7-medium"])
    ELSE IF outcome = "missing_fields"
    THEN Raised(bump(bump(st, "llm7", "success"), "llm7", "errors"),
                "LLM7 request failed")
    ELSE Raised(bump(st, "llm7", "errors"), "LLM7 request failed")

\* the handler, were it to let the tier's exception through
fallback_propagates(r, capabilities) == r

\* generate_response's handler: whatever the selected tier raised, answer with
\* use_local, outside any try
fallback(r, capabilities) ==
    IF r.raised THEN use_local(r.stats, capabilities) ELSE r

\* the end of generate_response, were a failure of the local tier turned into
\* a returned result
Finished_swallows(call, r) ==
    [call EXCEPT !.pc = "returned", !.result = r.result, !.error = r.error]

\* the caller's coroutine once generate_response has returned or raised
Finished(call, r) ==
    [call EXCEPT !.pc = IF r.raised THEN "raised" ELSE "returned",
                 !.result = r.result, !.error = r.error]

\* generate_response from its call to its first suspension point, or to its end
\* when the local tier is selected
generate_response_call(st, preference, capabilities) ==
    LET api  == select_api(preference)
        call == [IdleCall EXCEPT !.preference = preference,
                                 !.capabilities = capabilities, !.selected = api]
        r    == IF api = "camel_ai" THEN fallback(use_camel_ai_unsent(st), capabilities)
                ELSE IF api = "llm7" THEN fallback(use_llm7_unsent(st), capabilities)
                ELSE fallback(use_local(st, capabilities), capabilities)
    IN  IF api = "camel_ai" /\ capabilities.joinable
        THEN [stats |-> use_camel_ai_request(st), call |-> [call EXCEPT !.pc = "post_camel_ai"]]
        ELSE IF api = "llm7" /\ capabilities.joinable
        THEN [stats |-> use_llm7_request(st), call |-> [call EXCEPT !.pc = "post_llm7"]]
        ELSE [stats |-> r.stats, call |-> Finished(call, r)]

\* generate_response from the answer of the remote tier to its end
generate_response_resume(st, call, outcome) ==
    LET r0 == IF call.pc = "post_camel_ai" THEN use_camel_ai(st, outcome)
              ELSE use_llm7(st, outcome)
        r  == fallback(r0, call.capabilities)
    IN  [stats |-> r.stats, call |-> Finished(call, r)]

total_requests(st) == sum_over(st, "requests", DOMAIN st)

Suspended(call) == call.pc \in {"post_camel_ai", "post_llm7"}

\* the statistics after each write of use_local, in order: requests, then
\* success or errors
use_local_writes(st, capabilities) ==
    <<bump(st, "local", "requests"), use_local(st, capabilities).stats>>

\* the statistics after each write of use_camel_ai / use_llm7 from the answer
\* of session.post on: success, or errors, or (a body without the fields)
\* success and then errors
remote_writes(st, tier, outcome) ==
    IF outcome = "ok" THEN <<bump(st, tier, "success")>>
    ELSE IF outcome = "missing_fields"
    THEN <<bump(st, tier, "success"), bump(bump(st, tier, "success"), tier, "errors")>>
    ELSE <<bump(st, tier, "errors")>>

\* the statistics after each write of generate_response from its call to its
\* first suspension point, or to its end
generate_response_call_writes(st, preference, capabilities) ==
    LET api == select_api(preference)
        requested == bump(st, api, "requests")
        unsent == bump(requested, api, "errors")
        r == use_local(st, capabilities)
    IN  IF api = "local"
        THEN use_local_writes(st, capabilities)
                \o (IF r.raised THEN use_local_writes(r.stats, capabilities) ELSE << >>)
        ELSE IF capabilities.joinable THEN <<requested>>
        ELSE <<requested, unsent>> \o use_local_writes(unsent, capabilities)

\* the statistics after each write of generate_response from the answer of
\* the remote tier to its end
generate_response_resume_writes(st, call, outcome) ==
    LET tier == IF call.pc = "post_camel_ai" THEN "camel_ai" ELSE "llm7"
        ws == remote_writes(st, tier, outcome)
    IN  IF outcome = "ok" THEN ws
        ELSE ws \o use_local_writes(ws[Len(ws)], call.capabilities)

(***************************************************************************)
(* APIIntegration: the startup probe.                                      *)
(***************************************************************************)
\* initialize on the router's own fields: opens the session and runs
\* test_camel_ai to its suspension, or, with the placeholder key, goes on to
\* test_llm7
initialize_call ==
    /\ init_pc = "new"
    /\ IF camel_ai_key = "demo_key"
       THEN IF llm7_key = "demo_key"
            THEN /\ init_pc' = "done"
                 /\ probe_result' = [camel_ai |-> "skipped", llm7 |-> "skipped"]
                 /\ probe_calls' = probe_calls
            ELSE /\ init_pc' = "probe_llm7"
                 /\ probe_result' = [probe_result EXCEPT !["camel_ai"] = "skipped"]
                 /\ probe_calls' = [probe_calls EXCEPT !["llm7"] = @ + 1]
       ELSE /\ init_pc' = "probe_camel_ai"
            /\ probe_calls' = [probe_calls EXCEPT !["camel_ai"] = @ + 1]
            /\ probe_result' = probe_result
    /\ UNCHANGED <<camel_ai_key, llm7_key, camel_ai_enabled, llm7_enabled, stats, calls>>

\* APIIntegration.initialize, called on its own
initialize ==
    /\ initialize_call
    /\ UNCHANGED outsideRouter

\* the probe, were any answered request to mark the tier reachable
probe_enables_any_answer(outcome) == outcome # "raised"

\* whether a probe that ended with `outcome` marks its tier reachable
probe_enables(outcome) == outcome = "status_200"

\* test_camel_ai from the answer of session.get, then test_llm7 to its
\* suspension, on the router's own fields
test_camel_ai_ends(outcome) ==
    /\ init_pc = "probe_camel_ai"
    /\ camel_ai_enabled' = (camel_ai_enabled \/ probe_enables(outcome))
    /\ IF llm7_key = "demo_key"
       THEN /\ init_pc' = "done"
            /\ probe_result' = [camel_ai |-> outcome, llm7 |-> "skipped"]
            /\ probe_calls' = probe_calls
       ELSE /\ init_pc' = "probe_llm7"
            /\ probe_result' = [probe_result EXCEPT !["camel_ai"] = outcome]
            /\ probe_calls' = [probe_calls EXCEPT !["llm7"] = @ + 1]
    /\ UNCHANGED <<camel_ai_key, llm7_key, llm7_enabled, stats, calls>>

\* the awaited session.get of test_camel_ai ends, in an initialize called on
\* its own
test_camel_ai(outcome) ==
    /\ test_camel_ai_ends(outcome)
    /\ UNCHANGED outsideRouter

\* test_llm7, were the probe run again after startup
test_llm7_reprobes(outcome) ==
    /\ init_pc \in {"probe_llm7", "done"}
    /\ llm7_enabled' = (llm7_enabled \/ probe_enables(outcome))
    /\ init_pc' = "done"
    /\ probe_result' = [probe_result EXCEPT !["llm7"] = outcome]
    /\ UNCHANGED <<camel_ai_key, llm7_key, camel_ai_enabled, stats, calls, probe_calls>>

\* test_llm7 from the answer of session.get, on the router's own fields;
\* initialize then logs and returns
test_llm7_ends(outcome) ==
    /\ init_pc = "probe_llm7"
    /\ llm7_enabled' = (llm7_enabled \/ probe_enables(outcome))
    /\ init_pc' = "done"
    /\ probe_result' = [probe_result EXCEPT !["llm7"] = outcome]
    /\ UNCHANGED <<camel_ai_key, llm7_key, camel_ai_enabled, stats, calls, probe_calls>>

\* the awaited session.get of test_llm7 ends, in an initialize called on its
\* own
test_llm7(outcome) ==
    /\ test_llm7_ends(outcome)
    /\ UNCHANGED outsideRouter

(***************************************************************************)
(* APIIntegration: the actions of a caller.                                *)
(***************************************************************************)
generate_response(c, preference, capabilities) ==
    /\ init_pc = "done"
    /\ calls[c].pc = "idle"
    /\ total_requests(stats) < MaxRequests
    /\ LET g == generate_response_call(stats, preference, capabilities)
       IN  /\ stats' = g.stats
           /\ calls' = [calls EXCEPT ![c] = g.call]
    /\ UNCHANGED <<camel_ai_key, llm7_key, camel_ai_enabled, llm7_enabled, init_pc,
                   probe_calls, probe_result>>
    /\ UNCHANGED outsideRouter

\* the awaited session.post of caller c ends with `outcome`, and
\* generate_response runs to its end
remote_answer_step(c, outcome) ==
    /\ Suspended(calls[c])
    /\ LET g == generate_response_resume(stats, calls[c], outcome)
       IN  /\ stats' = g.stats
           /\ calls' = [calls EXCEPT ![c] = g.call]
    /\ UNCHANGED <<camel_ai_key, llm7_key, camel_ai_enabled, llm7_enabled, init_pc,
                   probe_calls, probe_result>>

remote_answer(c, outcome) ==
    /\ remote_answer_step(c, outcome)
    /\ UNCHANGED outsideRouter

\* the same step, observed: the session was opened with
\* ClientTimeout(total=config.timeout), so the wait ends within that time, by
\* an answer, a transport error or asyncio.TimeoutError
session_post_ends(c, outcome) ==
    /\ remote_answer_step(c, outcome)
    /\ post_outcome' = [post_outcome EXCEPT ![c] = outcome]
    /\ UNCHANGED outsideSession


(***************************************************************************)
(* BaseAgent (main_enhanced.py 502-577; initialize as in main.py 149-161). *)
(***************************************************************************)
\* the agent may be called: none of its coroutines is suspended, and the
\* model's budget of calls is not used up
Callable(a) ==
    /\ agent_pc[a] = "ready"
    /\ tasks_completed[a] + Len(errors[a]) < MaxAgentOps

\* initialize up to the awaited setup hook
BaseAgent_initialize(a) ==
    /\ Callable(a)
    /\ status' = [status EXCEPT ![a] = "initializing"]
    /\ agent_pc' = [agent_pc EXCEPT ![a] = "setup"]
    /\ agent_ret' = [agent_ret EXCEPT ![a] = NoReturn]
    /\ UNCHANGED <<tasks_completed, errors, conversations, agents, stats, calls>>
    /\ UNCHANGED outsideAgents

\* initialize, were the handler not to record the exception
BaseAgent_initialize_return_unlogged(a, hook) ==
    /\ agent_pc[a] = "setup"
    /\ agent_pc' = [agent_pc EXCEPT ![a] = "ready"]
    /\ IF hook = "ok"
       THEN /\ status' = [status EXCEPT ![a] = "active"]
            /\ agent_ret' = [agent_ret EXCEPT ![a] = [NoReturn EXCEPT !.value = "True"]]
            /\ agents' = agents \cup {a}
       ELSE /\ status' = [status EXCEPT ![a] = "error"]
            /\ agent_ret' = [agent_ret EXCEPT ![a] = [NoReturn EXCEPT !.value = "False"]]
            /\ agents' = agents
    /\ UNCHANGED <<errors, tasks_completed, conversations, stats, calls>>
    /\ UNCHANGED outsideAgents

\* initialize from the end of the setup hook; initialize_agents registers the
\* agent when it returns True
BaseAgent_initialize_return(a, hook) ==
    /\ agent_pc[a] = "setup"
    /\ agent_pc' = [agent_pc EXCEPT ![a] = "ready"]
    /\ IF hook = "ok"
       THEN /\ status' = [status EXCEPT ![a] = "active"]
            /\ errors' = errors
            /\ agent_ret' = [agent_ret EXCEPT ![a] = [NoReturn EXCEPT !.value = "True"]]
            /\ agents' = agents \cup {a}
       ELSE /\ status' = [status EXCEPT ![a] = "error"]
            /\ errors' = [errors EXCEPT ![a] = Append(@, "setup failed")]
            /\ agent_ret' = [agent_ret EXCEPT ![a] = [NoReturn EXCEPT !.value = "False"]]
            /\ agents' = agents
    /\ UNCHANGED <<tasks_completed, conversations, stats, calls>>
    /\ UNCHANGED outsideAgents

\* what execute_task logs and returns for the exception it caught
task_error(g, hook) ==
    IF g.call.pc = "raised" THEN g.call.error ELSE "processing failed"

\* execute_task's end, were the handler to count the failed task as completed
execute_task_return_counts_failure(a, task, g, hook) ==
    /\ stats' = g.stats
    /\ calls' = [calls EXCEPT ![a] = g.call]
    /\ agent_pc' = [agent_pc EXCEPT ![a] = "ready"]
    /\ tasks_completed' = [tasks_completed EXCEPT ![a] = @ + 1]
    /\ IF g.call.pc = "returned" /\ hook = "ok"
       THEN /\ conversations' =
                  [conversations EXCEPT ![a] =
                      Append(@, [task |-> task, prompt |-> "prompt",
                                 result |-> g.call.result,
                                 processed |-> g.call.result.content])]
            /\ errors' = errors
            /\ agent_ret' = [agent_ret EXCEPT ![a] =
                  [value |-> "success", api_used |-> g.call.result.api_used, error |-> ""]]
       ELSE /\ errors' = [errors EXCEPT ![a] = Append(@, task_error(g, hook))]
            /\ agent_ret' = [agent_ret EXCEPT ![a] =
                  [value |-> "error", api_used |-> "", error |-> task_error(g, hook)]]
            /\ UNCHANGED conversations

\* execute_task's end, were it to report the tier that was selected
execute_task_return_reports_selected(a, task, g, hook) ==
    /\ stats' = g.stats
    /\ calls' = [calls EXCEPT ![a] = g.call]
    /\ agent_pc' = [agent_pc EXCEPT ![a] = "ready"]
    /\ IF g.call.pc = "returned" /\ hook = "ok"
       THEN /\ tasks_completed' = [tasks_completed EXCEPT ![a] = @ + 1]
            /\ conversations' =
                  [conversations EXCEPT ![a] =
                      Append(@, [task |-> task, prompt |-> "prompt",
                                 result |-> g.call.result,
                                 processed |-> g.call.result.content])]
            /\ errors' = errors
            /\ agent_ret' = [agent_ret EXCEPT ![a] =
                  [value |-> "success", api_used |-> g.call.selected, error |-> ""]]
       ELSE /\ errors' = [errors EXCEPT ![a] = Append(@, task_error(g, hook))]
            /\ agent_ret' = [agent_ret EXCEPT ![a] =
                  [value |-> "error", api_used |-> "", error |-> task_error(g, hook)]]
            /\ UNCHANGED <<tasks_completed, conversations>>

\* execute_task from the end of generate_response (returned or raised) to its
\* own end: _process_task_result runs, then the exchange is recorded; an
\* exception of either is logged and returned as {status: 'error'}
execute_task_return(a, task, g, hook) ==
    /\ stats' = g.stats
    /\ calls' = [calls EXCEPT ![a] = g.call]
    /\ agent_pc' = [agent_pc EXCEPT ![a] = "ready"]
    /\ IF g.call.pc = "returned" /\ hook = "ok"
       THEN /\ tasks_completed' = [tasks_completed EXCEPT ![a] = @ + 1]
            /\ conversations' =
                  [conversations EXCEPT ![a] =
                      Append(@, [task |-> task, prompt |-> "prompt",
                                 result |-> g.call.result,
                                 processed |-> g.call.result.content])]
            /\ errors' = errors
            /\ agent_ret' = [agent_ret EXCEPT ![a] =
                  [value |-> "success", api_used |-> g.call.result.api_used, error |-> ""]]
       ELSE /\ errors' = [errors EXCEPT ![a] = Append(@, task_error(g, hook))]
            /\ agent_ret' = [agent_ret EXCEPT ![a] =
                  [value |-> "error", api_used |-> "", error |-> task_error(g, hook)]]
            /\ UNCHANGED <<tasks_completed, conversations>>

\* what execute_task does from its call to the suspension of generate_response,
\* or to its end when nothing suspends
execute_task_call(a, task, hook) ==
    IF task = "not_a_dict" \/ ~agent_configs[a].capabilities.joinable
    THEN \* create_task_prompt raises
         /\ errors' = [errors EXCEPT ![a] = Append(@, "prompt failed")]
         /\ agent_ret' = [agent_ret EXCEPT ![a] =
               [value |-> "error", api_used |-> "", error |-> "prompt failed"]]
         /\ UNCHANGED <<tasks_completed, conversations, agent_pc, stats, calls>>
    ELSE LET g == generate_response_call(stats, agent_configs[a].api_preference,
                                         agent_configs[a].capabilities)
         IN  IF Suspended(g.call)
             THEN /\ stats' = g.stats
                  /\ calls' = [calls EXCEPT ![a] = g.call]
                  /\ agent_pc' = [agent_pc EXCEPT ![a] = "routing"]
                  /\ agent_ret' = [agent_ret EXCEPT ![a] = NoReturn]
                  /\ UNCHANGED <<tasks_completed, conversations, errors>>
             ELSE execute_task_return(a, task, g, hook)

\* what execute_task does from the answer of the remote tier to its end
execute_task_answer(a, outcome, hook) ==
    execute_task_return(a, "task", generate_response_resume(stats, calls[a], outcome), hook)

\* the entry execute_task appends to self.conversations
exchange(task, g) ==
    [task |-> task, prompt |-> "prompt", result |-> g.call.result,
     processed |-> g.call.result.content]

\* execute_task of agent a write by write, from the first write of
\* generate_response, which makes the writes `writes` to the statistics and
\* ends as g: then tasks_completed and conversations, or the handler's
\* errors.append
execute_task_writes(a, task, writes, g, hook) ==
    LET before == [stats |-> stats, tasks_completed |-> tasks_completed[a],
                   conversations |-> conversations[a], errors |-> errors[a]]
        routed == [i \in 1..Len(writes) |-> [before EXCEPT !.stats = writes[i]]]
        ended  == [before EXCEPT !.stats = g.stats]
    IN  IF Suspended(g.call) THEN routed
        ELSE IF g.call.pc = "returned" /\ hook = "ok"
        THEN routed \o << [ended EXCEPT !.tasks_completed = @ + 1],
                          [ended EXCEPT !.tasks_completed = @ + 1,
                                        !.conversations = Append(@, exchange(task, g))] >>
        ELSE routed \o << [ended EXCEPT !.errors = Append(@, task_error(g, hook))] >>

\* Ctrl+C in execute_task of agent a, raised after the k-th of these writes
\* and before the next one: no handler of execute_task or generate_response
\* catches it, the coroutines are gone and the call returns nothing
execute_task_interrupted(a, trace, k) ==
    /\ stats' = trace[k].stats
    /\ tasks_completed' = [tasks_completed EXCEPT ![a] = trace[k].tasks_completed]
    /\ conversations' = [conversations EXCEPT ![a] = trace[k].conversations]
    /\ errors' = [errors EXCEPT ![a] = trace[k].errors]
    /\ agent_pc' = [b \in Agents |-> "ready"]
    /\ agent_ret' = [agent_ret EXCEPT ![a] = NoReturn]
    /\ calls' = [c \in Callers |->
                    IF c = a \/ Suspended(calls[c]) THEN IdleCall ELSE calls[c]]

\* execute_task, were it to reject an agent that is not 'active'
execute_task_rejects_inactive(a, task, hook) ==
    /\ Callable(a)
    /\ init_pc = "done"
    /\ status[a] = "active"
    /\ execute_task_call(a, task, hook)
    /\ UNCHANGED <<status, agents>>
    /\ UNCHANGED outsideAgents

\* execute_task, called on an agent instance
execute_task(a, task, hook) ==
    /\ Callable(a)
    /\ init_pc = "done"
    /\ execute_task_call(a, task, hook)
    /\ UNCHANGED <<status, agents>>
    /\ UNCHANGED outsideAgents

\* execute_task from the answer of the remote tier to its end
execute_task_resume(a, outcome, hook) ==
    /\ agent_pc[a] = "routing"
    /\ execute_task_answer(a, outcome, hook)
    /\ UNCHANGED <<status, agents>>
    /\ UNCHANGED outsideAgents

\* EnhancedAgenticAISystem.shutdown: every registered agent is terminated (an
\* empty registry leaves everything as it is)
shutdown ==
    /\ status' = [a \in Agents |-> IF a \in agents THEN "terminated" ELSE status[a]]
    /\ UNCHANGED <<tasks_completed, errors, conversations, agent_pc, agent_ret, agents,
                   stats, calls>>
    /\ UNCHANGED outsideAgents

AgentInit ==
    /\ status = [a \in Agents |-> "initialized"]
    /\ tasks_completed = [a \in Agents |-> 0]
    /\ errors = [a \in Agents |-> << >>]
    /\ conversations = [a \in Agents |-> << >>]
    /\ agent_pc = [a \in Agents |-> "ready"]
    /\ agent_ret = [a \in Agents |-> NoReturn]
    /\ agents = {}

\* the caller takes what generate_response returned or raised and goes on
take_result(c) ==
    /\ calls[c].pc \in {"returned", "raised"}
    /\ calls' = [calls EXCEPT ![c] = IdleCall]
    /\ UNCHANGED <<camel_ai_key, llm7_key, camel_ai_enabled, llm7_enabled, stats, init_pc,
                   probe_calls, probe_result>>
    /\ UNCHANGED outsideRouter

(***************************************************************************)
(* APIIntegration: the scenario coordinator (main_enhanced.py 355-452).    *)
(***************************************************************************)
\* scenario.get('rounds', 3)
rounds(scenario) == IF scenario.has_rounds THEN scenario.rounds ELSE 3

\* the session dict both paths start from
new_session(scenario, participants) ==
    [scenario |-> scenario, agents |-> participants, messages |-> << >>,
     status |-> "active", error |-> "", has_end_time |-> FALSE]

\* session['messages'].append, were the loop index recorded as the round
append_message_round_index(sess, round_num, agent, content, api_used) ==
    [sess EXCEPT !.messages =
        Append(@, [round |-> round_num, agent |-> agent.name, role |-> agent.role,
                   content |-> content, api_used |-> api_used])]

\* session['messages'].append, were the simulation to label its messages as
\* the local tier's
append_message_labels_local(sess, round_num, agent, content, api_used) ==
    [sess EXCEPT !.messages =
        Append(@, [round |-> round_num + 1, agent |-> agent.name, role |-> agent.role,
                   content |-> content,
                   api_used |-> IF api_used = "local_simulation" THEN "local"
                                ELSE api_used])]

\* session['messages'].append({'round': round_num + 1, 'agent': ..., ...})
append_message(sess, round_num, agent, content, api_used) ==
    [sess EXCEPT !.messages =
        Append(@, [round |-> round_num + 1, agent |-> agent.name, role |-> agent.role,
                   content |-> content, api_used |-> api_used])]

\* the handler, were it to stamp the end of the session too
failed_session_stamps_end(sess, error) ==
    [sess EXCEPT !.status = "error", !.error = error, !.has_end_time = TRUE]

\* the handler of create_multi_agent_scenario: the session is kept and marked
failed_session(sess, error) == [sess EXCEPT !.status = "error", !.error = error]

\* session['status'] = 'completed'; session['end_time'] = datetime.now()
completed_session(sess) == [sess EXCEPT !.status = "completed", !.has_end_time = TRUE]

\* the simulated response, were the opener chosen by the recorded round
local_response_by_round(round_num, agent) ==
    responses[((round_num + 1) % Len(responses)) + 1]
        \o " (Local simulation by " \o agent.name \o ")"

\* responses[round_num % len(responses)] and the suffix naming the participant
local_response(round_num, agent) ==
    responses[(round_num % Len(responses)) + 1]
        \o " (Local simulation by " \o agent.name \o ")"

\* simulate_local_scenario's loops from (round_num, index) on; there is no
\* suspension point and no handler: an exception leaves the coroutine
RECURSIVE local_rounds(_, _, _)
local_rounds(sess, round_num, index) ==
    IF round_num >= rounds(sess.scenario)
    THEN [raised |-> FALSE, session |-> completed_session(sess)]
    ELSE IF index > Len(sess.agents)
    THEN local_rounds(sess, round_num + 1, 1)
    ELSE IF ~sess.agents[index].has_role
    THEN [raised |-> TRUE, session |-> sess]
    ELSE local_rounds(append_message(sess, round_num, sess.agents[index],
                                     local_response(round_num, sess.agents[index]),
                                     "local_simulation"),
                      round_num, index + 1)

simulate_local_scenario(scenario, participants) ==
    local_rounds(new_session(scenario, participants), 0, 1)

\* session['messages'][-3:], were the whole transcript embedded
previous_messages_all(messages) == messages

\* session['messages'][-3:]
previous_messages(messages) ==
    IF Len(messages) <= 3 THEN messages
    ELSE SubSeq(messages, Len(messages) - 2, Len(messages))

\* the prompt built for a participant: the round, the role, the name and the
\* previous messages
scenario_prompt(sess, round_num, agent) ==
    [round |-> round_num + 1, role |-> agent.role, name |-> agent.name,
     previous |-> previous_messages(sess.messages)]

\* create_multi_agent_scenario's loops from (round_num, index) on, up to the
\* next suspension of generate_response or to the end; `call` is the last
\* generate_response coroutine of the coordinator, `prompts` the prompts built
\* so far
RECURSIVE scenario_rounds(_, _, _, _, _, _)
scenario_rounds(st, call, sess, prompts, round_num, index) ==
    IF round_num >= rounds(sess.scenario)
    THEN [stats |-> st, call |-> call, session |-> completed_session(sess),
          pc |-> "returned", round_num |-> round_num, index |-> index,
          prompts |-> prompts]
    ELSE IF index > Len(sess.agents)
    THEN scenario_rounds(st, call, sess, prompts, round_num + 1, 1)
    ELSE IF ~sess.scenario.has_description
    THEN [stats |-> st, call |-> call, session |-> failed_session(sess, "'description'"),
          pc |-> "returned", round_num |-> round_num, index |-> index,
          prompts |-> prompts]
    ELSE IF ~sess.agents[index].has_role
    THEN [stats |-> st, call |-> call, session |-> failed_session(sess, "'role'"),
          pc |-> "returned", round_num |-> round_num, index |-> index,
          prompts |-> prompts]
    ELSE LET g == generate_response_call(st, "camel", sess.agents[index].capabilities)
             issued == Append(prompts, scenario_prompt(sess, round_num, sess.agents[index]))
         IN  IF Suspended(g.call)
             THEN [stats |-> g.stats, call |-> g.call, session |-> sess,
                   pc |-> "post", round_num |-> round_num, index |-> index,
                   prompts |-> issued]
             ELSE IF g.call.pc = "raised"
             THEN [stats |-> g.stats, call |-> g.call,
                   session |-> failed_session(sess, g.call.error),
                   pc |-> "returned", round_num |-> round_num, index |-> index,
                   prompts |-> issued]
             ELSE scenario_rounds(g.stats, g.call,
                                  append_message(sess, round_num, sess.agents[index],
                                                 g.call.result.content,
                                                 g.call.result.api_used),
                                  issued, round_num, index + 1)

\* whether create_multi_agent_scenario hands the scenario to the simulation
uses_local_simulation == ~camel_ai_enabled

\* create_multi_agent_scenario from its call to the first suspension, or to
\* its end
create_multi_agent_scenario(scenario, participants) ==
    /\ init_pc = "done"
    /\ scenario_pc.pc = "idle"
    /\ IF uses_local_simulation
       THEN LET r == simulate_local_scenario(scenario, participants)
            IN  /\ session' = IF r.raised THEN NoSession ELSE r.session
                /\ scenario_pc' = [IdleScenario EXCEPT
                                      !.pc = IF r.raised THEN "raised" ELSE "returned",
                                      !.path = "local_simulation"]
                /\ UNCHANGED <<stats, calls>>
       ELSE IF ~scenario.has_title
       THEN \* scenario['title'] is read for the log line, before the try
            /\ session' = NoSession
            /\ scenario_pc' = [IdleScenario EXCEPT !.pc = "raised", !.path = "router"]
            /\ UNCHANGED <<stats, calls>>
       ELSE LET r == scenario_rounds(stats, calls[Coordinator],
                                     new_session(scenario, participants), << >>, 0, 1)
            IN  /\ session' = r.session
                /\ scenario_pc' = [pc |-> r.pc, path |-> "router",
                                   round_num |-> r.round_num, index |-> r.index,
                                   prompts |-> r.prompts]
                /\ stats' = r.stats
                /\ calls' = [calls EXCEPT ![Coordinator] = r.call]
    /\ UNCHANGED outsideScenario

\* create_multi_agent_scenario from the answer of the remote tier on
scenario_answer(outcome) ==
    /\ scenario_pc.pc = "post"
    /\ LET g == generate_response_resume(stats, calls[Coordinator], outcome)
           agent == session.agents[scenario_pc.index]
           r == IF g.call.pc = "raised"
                THEN [stats |-> g.stats, call |-> g.call,
                      session |-> failed_session(session, g.call.error),
                      pc |-> "returned", round_num |-> scenario_pc.round_num,
                      index |-> scenario_pc.index, prompts |-> scenario_pc.prompts]
                ELSE scenario_rounds(g.stats, g.call,
                                     append_message(session, scenario_pc.round_num, agent,
                                                    g.call.result.content,
                                                    g.call.result.api_used),
                                     scenario_pc.prompts,
                                     scenario_pc.round_num, scenario_pc.index + 1)
       IN  /\ session' = r.session
           /\ scenario_pc' = [scenario_pc EXCEPT !.pc = r.pc, !.round_num = r.round_num,
                                                 !.index = r.index, !.prompts = r.prompts]
           /\ stats' = r.stats
           /\ calls' = [calls EXCEPT ![Coordinator] = r.call]
    /\ UNCHANGED outsideScenario

(***************************************************************************)
(* EnhancedAgenticAISystem: startup, the system loop, maintenance          *)
(* (main_enhanced.py 696-825, 855-906).                                    *)
(***************************************************************************)
\* the config initialize_agents handles next: the first one not yet initialized
next_config(a) ==
    \E i \in 1..Len(agent_order) :
        /\ agent_order[i] = a
        /\ status[a] = "initialized"
        /\ \A j \in 1..(i - 1) : status[agent_order[j]] \in {"active", "error"}

\* initialize_agents: agent.initialize() of the next config, up to its setup hook
initialize_agents(a) ==
    /\ loop_pc = "startup"
    /\ init_pc = "done"
    /\ next_config(a)
    /\ \A b \in Agents : agent_pc[b] = "ready"
    /\ BaseAgent_initialize(a)

\* initialize_agents: initialize() returns True and the agent is registered
\* (the setup hooks of DevEngineAgent and BaseAgent do not raise)
initialize_agents_return(a) ==
    /\ loop_pc = "startup"
    /\ BaseAgent_initialize_return(a, "ok")

\* initialize_agents, were the agent kept whatever initialize() returned
initialize_agents_registers_failed(a, hook) ==
    /\ loop_pc = "startup"
    /\ agent_pc[a] = "setup"
    /\ agent_pc' = [agent_pc EXCEPT ![a] = "ready"]
    /\ agents' = agents \cup {a}
    /\ IF hook = "ok"
       THEN /\ status' = [status EXCEPT ![a] = "active"]
            /\ errors' = errors
            /\ agent_ret' = [agent_ret EXCEPT ![a] = [NoReturn EXCEPT !.value = "True"]]
       ELSE /\ status' = [status EXCEPT ![a] = "error"]
            /\ errors' = [errors EXCEPT ![a] = Append(@, "setup failed")]
            /\ agent_ret' = [agent_ret EXCEPT ![a] = [NoReturn EXCEPT !.value = "False"]]
    /\ UNCHANGED <<tasks_completed, conversations, stats, calls>>
    /\ UNCHANGED outsideAgents

\* initialize_agents: the awaited initialize() ends, with an agent class
\* whose setup hook may raise; `if success: self.agents[config.name] = agent`
initialize_agents_setup_ends(a, hook) ==
    /\ loop_pc = "startup"
    /\ BaseAgent_initialize_return(a, hook)

\* sum(agent.tasks_completed for agent in self.agents.values())
RECURSIVE TotalTasks(_)
TotalTasks(registered) ==
    IF registered = {} THEN 0
    ELSE LET a == CHOOSE x \in registered : TRUE
         IN  tasks_completed[a] + TotalTasks(registered \ {a})

\* run_system_loop begins with run_enhanced_demo
run_enhanced_demo ==
    /\ loop_pc = "startup"
    /\ \A a \in Agents : status[a] \in {"active", "error"}
    /\ create_multi_agent_scenario(demo_scenario, demo_agents)

\* run_enhanced_demo keeps the session; loop_count = 0 and the loop is entered
enter_loop ==
    /\ loop_pc = "startup"
    /\ scenario_pc.pc = "returned"
    /\ multi_agent_sessions' = Append(multi_agent_sessions, session)
    /\ loop_count' = 0
    /\ loop_pc' = IF 0 < cycle_limit THEN "cycle" ELSE "finished"
    /\ UNCHANGED <<cycle, faults, stats, calls, agentVars>>
    /\ UNCHANGED outsideLoop

\* [agent for agent in self.agents.values() if agent.status == 'active']
active_agents == SelectSeq(agent_order, LAMBDA a : a \in agents /\ status[a] = "active")

\* the agents execute_enhanced_autonomous_tasks gives a task to: 'loop_count'
\* is not a local of that method, so it is active_agents[0]
selected_agents(active) == IF active = << >> THEN << >> ELSE <<active[1]>>

\* execute_enhanced_autonomous_tasks up to the suspension of execute_task, or
\* to its end
execute_enhanced_autonomous_tasks ==
    /\ loop_pc = "cycle"
    /\ LET selected == selected_agents(active_agents)
       IN  IF selected = << >>
           THEN /\ cycle' = [NoCycle EXCEPT !.phases = {"dispatch"}]
                /\ loop_pc' = "maintenance"
                /\ UNCHANGED <<tasks_completed, conversations, errors, agent_pc, agent_ret,
                               stats, calls>>
           ELSE /\ execute_task_call(selected[1], "task", "ok")
                /\ loop_pc' = IF agent_pc'[selected[1]] = "routing"
                              THEN "awaiting_task" ELSE "maintenance"
                /\ cycle' = [dispatched |-> selected,
                             active_at_dispatch |->
                                 {active_agents[i] : i \in 1..Len(active_agents)},
                             phases |-> IF agent_pc'[selected[1]] = "routing"
                                        THEN {} ELSE {"dispatch"}]
    /\ UNCHANGED <<status, agents, loop_count, faults, multi_agent_sessions>>
    /\ UNCHANGED outsideLoop

\* execute_enhanced_autonomous_tasks from the answer of the remote tier on
task_answer(outcome) ==
    /\ loop_pc = "awaiting_task"
    /\ execute_task_answer(cycle.dispatched[1], outcome, "ok")
    /\ loop_pc' = "maintenance"
    /\ cycle' = [cycle EXCEPT !.phases = @ \cup {"dispatch"}]
    /\ UNCHANGED <<status, agents, loop_count, faults, multi_agent_sessions>>
    /\ UNCHANGED outsideLoop

\* agent.conversations = agent.conversations[-10:] once it holds more than 20
trim_conversations(conversation) ==
    IF Len(conversation) > 20
    THEN SubSeq(conversation, Len(conversation) - 9, Len(conversation))
    ELSE conversation

\* system_maintenance: the conversations of every registered agent are trimmed
maintained(convs) ==
    [a \in Agents |-> IF a \in agents THEN trim_conversations(convs[a]) ELSE convs[a]]

\* what the handlers of run_system_loop do with what the cycle raised
handler_breaks_on_any(raised) == "interrupted"

\* what the handlers of run_system_loop do with what the cycle raised:
\* KeyboardInterrupt breaks, an Exception is logged and backed off
handler(raised) == IF raised = "KeyboardInterrupt" THEN "interrupted" ELSE "backoff"

\* system_maintenance, then show_enhanced_status when loop_count % 3 == 0, up
\* to the suspension at asyncio.sleep(3) or, when a print raised, at the
\* handler's asyncio.sleep(1)
maintenance_and_status(shown) ==
    /\ loop_pc = "maintenance"
    /\ conversations' = maintained(conversations)
    /\ IF loop_count % 3 = 0 /\ shown = "raises"
       THEN /\ faults < MaxFaults
            /\ faults' = faults + 1
            /\ loop_pc' = handler("OSError")
            /\ cycle' = [cycle EXCEPT !.phases = @ \cup {"maintenance"}]
       ELSE /\ faults' = faults
            /\ loop_pc' = "sleep"
            /\ cycle' = [cycle EXCEPT !.phases =
                            @ \cup {"maintenance"}
                              \cup (IF loop_count % 3 = 0 THEN {"status"} ELSE {})]
    /\ UNCHANGED <<status, tasks_completed, errors, agent_pc, agent_ret, agents,
                   stats, calls, loop_count, multi_agent_sessions>>
    /\ UNCHANGED outsideLoop

\* asyncio.sleep(3) is over: loop_count += 1 and the loop condition is tested
next_cycle ==
    /\ loop_pc = "sleep"
    /\ loop_count' = loop_count + 1
    /\ loop_pc' = IF loop_count + 1 < cycle_limit THEN "cycle" ELSE "finished"
    /\ UNCHANGED <<cycle, faults, multi_agent_sessions, stats, calls, agentVars>>
    /\ UNCHANGED outsideLoop

\* the handler, were the failed cycle counted as one of the ten
backoff_over_counts_cycle ==
    /\ loop_pc = "backoff"
    /\ loop_count' = loop_count + 1
    /\ loop_pc' = IF loop_count + 1 < cycle_limit THEN "cycle" ELSE "finished"
    /\ UNCHANGED <<cycle, faults, multi_agent_sessions, stats, calls, agentVars>>
    /\ UNCHANGED outsideLoop

\* the handler's asyncio.sleep(1) is over: the loop condition is tested again
backoff_over ==
    /\ loop_pc = "backoff"
    /\ loop_pc' = IF loop_count < cycle_limit THEN "cycle" ELSE "finished"
    /\ UNCHANGED <<loop_count, cycle, faults, multi_agent_sessions, stats, calls, agentVars>>
    /\ UNCHANGED outsideLoop

\* run_system_loop is inside the try block of its while: at the top of a
\* cycle, between two of the methods it awaits, or suspended in one of them
InCycle == loop_pc \in {"cycle", "dispatch", "awaiting_task", "maintenance", "sleep"}

\* Ctrl+C while main is in its try block. The interrupt is raised where main
\* stands: at the await it is suspended at, or between two statements. In
\* the try block of the while the KeyboardInterrupt handler breaks; in the
\* handler's asyncio.sleep(1), in run_enhanced_demo and during the startup
\* the interrupt leaves for the handlers of main. Nothing is written, and
\* the coroutines that were suspended are gone.
interrupt ==
    /\ loop_pc \in {"startup", "backoff"} \/ InCycle
    /\ loop_pc' = IF InCycle THEN handler("KeyboardInterrupt") ELSE "interrupted"
    /\ agent_pc' = [a \in Agents |-> "ready"]
    /\ calls' = [c \in Callers |-> IF Suspended(calls[c]) THEN IdleCall ELSE calls[c]]
    /\ UNCHANGED <<loop_count, cycle, faults, multi_agent_sessions, stats, status,
                   tasks_completed, errors, conversations, agent_ret, agents>>
    /\ UNCHANGED outsideLoop

\* Ctrl+C in initialize_agents after the status assignment that ends
\* initialize() and before what follows it: the registration of the agent,
\* or the handler's errors.append
initialize_agents_interrupted(a, hook) ==
    /\ loop_pc = "startup"
    /\ agent_pc[a] = "setup"
    /\ status' = [status EXCEPT ![a] = IF hook = "ok" THEN "active" ELSE "error"]
    /\ agent_pc' = [b \in Agents |-> "ready"]
    /\ loop_pc' = "interrupted"
    /\ UNCHANGED <<tasks_completed, errors, conversations, agent_ret, agents, stats, calls,
                   loop_count, cycle, faults, multi_agent_sessions>>
    /\ UNCHANGED outsideLoop

\* Ctrl+C in execute_enhanced_autonomous_tasks between two writes of the
\* task it dispatches: the KeyboardInterrupt handler of the loop breaks
dispatch_interrupted ==
    /\ loop_pc = "cycle"
    /\ active_agents # << >>
    /\ LET a == selected_agents(active_agents)[1]
           g == generate_response_call(stats, agent_configs[a].api_preference,
                                       agent_configs[a].capabilities)
           trace == execute_task_writes(a, "task",
                       generate_response_call_writes(stats, agent_configs[a].api_preference,
                                                     agent_configs[a].capabilities),
                       g, "ok")
       IN  /\ \E k \in 1..(Len(trace) - 1) : execute_task_interrupted(a, trace, k)
           /\ cycle' = [dispatched |-> <<a>>,
                        active_at_dispatch |->
                            {active_agents[i] : i \in 1..Len(active_agents)},
                        phases |-> {}]
    /\ loop_pc' = handler("KeyboardInterrupt")
    /\ UNCHANGED <<status, agents, loop_count, faults, multi_agent_sessions>>
    /\ UNCHANGED outsideLoop

\* Ctrl+C between two writes of the dispatched task, once the remote tier
\* has answered
task_interrupted(outcome) ==
    /\ loop_pc = "awaiting_task"
    /\ LET a == cycle.dispatched[1]
           g == generate_response_resume(stats, calls[a], outcome)
           trace == execute_task_writes(a, "task",
                       generate_response_resume_writes(stats, calls[a], outcome), g, "ok")
       IN  \E k \in 1..(Len(trace) - 1) : execute_task_interrupted(a, trace, k)
    /\ loop_pc' = handler("KeyboardInterrupt")
    /\ UNCHANGED <<status, agents, loop_count, cycle, faults, multi_agent_sessions>>
    /\ UNCHANGED outsideLoop

\* Ctrl+C after system_maintenance, before show_enhanced_status (when it is
\* due) has printed its last line
maintenance_interrupted ==
    /\ loop_pc = "maintenance"
    /\ conversations' = maintained(conversations)
    /\ cycle' = [cycle EXCEPT !.phases = @ \cup {"maintenance"}]
    /\ loop_pc' = handler("KeyboardInterrupt")
    /\ UNCHANGED <<status, tasks_completed, errors, agent_pc, agent_ret, agents,
                   stats, calls, loop_count, faults, multi_agent_sessions>>
    /\ UNCHANGED outsideLoop

\* execute_enhanced_autonomous_tasks with the dispatched agent given a class
\* whose execute_task raises (BaseAgent's catches every Exception): the
\* handler of the loop logs it and backs off
dispatch_raises ==
    /\ loop_pc = "cycle"
    /\ active_agents # << >>
    /\ faults < MaxFaults
    /\ faults' = faults + 1
    /\ loop_pc' = handler("Exception")
    /\ cycle' = [dispatched |-> selected_agents(active_agents),
                 active_at_dispatch |-> {active_agents[i] : i \in 1..Len(active_agents)},
                 phases |-> {}]
    /\ UNCHANGED <<loop_count, multi_agent_sessions, stats, calls, agentVars>>
    /\ UNCHANGED outsideLoop

\* main's finally: system.shutdown() is called once the try block was left,
\* by the end of the loop or by an interrupt, and runs to its await of
\* api_integration.cleanup()
main_finally ==
    /\ loop_pc \in {"interrupted", "finished"}
    /\ loop_pc' = "cleanup"
    /\ UNCHANGED <<loop_count, cycle, faults, multi_agent_sessions, stats, calls, agentVars>>
    /\ UNCHANGED outsideLoop

\* self.agents.values(): the registered agents in the order of registration
registered == SelectSeq(agent_order, LAMBDA a : a \in agents)

\* shutdown from the end of cleanup(): its loop terminates every registered
\* agent
shutdown_agents ==
    /\ loop_pc = "cleanup"
    /\ status' = [a \in Agents |-> IF a \in agents THEN "terminated" ELSE status[a]]
    /\ loop_pc' = "terminated"
    /\ UNCHANGED <<tasks_completed, errors, conversations, agent_pc, agent_ret, agents,
                   stats, calls, loop_count, cycle, faults, multi_agent_sessions>>
    /\ UNCHANGED outsideLoop

\* Ctrl+C in shutdown: at the await of cleanup() (k = 0), or in the loop
\* when it has terminated the first k registered agents. shutdown runs in
\* main's finally, so nothing catches the interrupt
shutdown_interrupted(k) ==
    /\ loop_pc = "cleanup"
    /\ k \in 0..Len(registered)
    /\ status' = [a \in Agents |-> IF \E i \in 1..k : registered[i] = a
                                   THEN "terminated" ELSE status[a]]
    /\ loop_pc' = "aborted"
    /\ UNCHANGED <<tasks_completed, errors, conversations, agent_pc, agent_ret, agents,
                   stats, calls, loop_count, cycle, faults, multi_agent_sessions>>
    /\ UNCHANGED outsideLoop

\* system_maintenance, were the counter recomputed from the trimmed history
system_maintenance_recounts ==
    /\ conversations' = maintained(conversations)
    /\ tasks_completed' =
          [a \in Agents |-> IF a \in agents THEN Len(conversations'[a])
                            ELSE tasks_completed[a]]
    /\ UNCHANGED <<status, errors, agent_pc, agent_ret, agents, stats, calls>>
    /\ UNCHANGED loopVars
    /\ UNCHANGED outsideLoop

\* system_maintenance, called on its own
system_maintenance ==
    /\ conversations' = maintained(conversations)
    /\ UNCHANGED <<status, tasks_completed, errors, agent_pc, agent_ret, agents,
                   stats, calls>>
    /\ UNCHANGED loopVars
    /\ UNCHANGED outsideLoop

\* execute_task on the maintained agent, as long as its logs are within the
\* model's bounds
log_task(a, task) ==
    /\ agent_pc[a] = "ready"
    /\ init_pc = "done"
    /\ a \in agents
    /\ IF task = "not_a_dict"
       THEN Len(errors[a]) < MaxErrorLog
       ELSE tasks_completed[a] < MaxConversationLog
    /\ execute_task_call(a, task, "ok")
    /\ UNCHANGED <<status, agents>>
    /\ UNCHANGED outsideAgents

(***************************************************************************)
(* MemoryBus (main_enhanced.py 480-500, main.py 39-59).                    *)
(***************************************************************************)
\* type(value).__name__
type_name(value) == value.class

\* store, were a key that is held to keep its value
store_keeps_first(key, value) ==
    /\ data' = [data EXCEPT ![key] =
                   IF @.present THEN [@ EXCEPT !.timestamp = clock]
                   ELSE [present |-> TRUE, value |-> value, timestamp |-> clock,
                         type |-> type_name(value)]]
    /\ UNCHANGED <<clock, retrieved>>
    /\ UNCHANGED outsideMemory

\* store: under the lock, self.data[key] is replaced by a new entry
store(key, value) ==
    /\ data' = [data EXCEPT ![key] =
                   [present |-> TRUE, value |-> value, timestamp |-> clock,
                    type |-> type_name(value)]]
    /\ UNCHANGED <<clock, retrieved>>
    /\ UNCHANGED outsideMemory

\* self.data.get(key, {}).get('value')
retrieve(key) == IF data[key].present THEN data[key].value ELSE PyNone

\* retrieve, were it to read with setdefault
retrieve_call_creates_entry(key) ==
    /\ retrieved' = [key |-> key, value |-> retrieve(key)]
    /\ data' = [data EXCEPT ![key] =
                   IF @.present THEN @
                   ELSE [present |-> TRUE, value |-> PyNone, timestamp |-> clock,
                         type |-> type_name(PyNone)]]
    /\ UNCHANGED clock
    /\ UNCHANGED outsideMemory

\* a call of retrieve: the caller holds what it returned
retrieve_call(key) ==
    /\ retrieved' = [key |-> key, value |-> retrieve(key)]
    /\ UNCHANGED <<data, clock>>
    /\ UNCHANGED outsideMemory

\* time passes
tick ==
    /\ clock < MaxClock
    /\ clock' = clock + 1
    /\ UNCHANGED <<data, retrieved>>
    /\ UNCHANGED outsideMemory

\* a thread calls store(key, value) and reaches `with self.lock`
call_store(t, key, value) ==
    /\ threads[t].pc = "idle"
    /\ threads' = [threads EXCEPT ![t] =
                      [pc |-> "acquire", op |-> "store", key |-> key, value |-> value,
                       outcome |-> ""]]
    /\ UNCHANGED <<lock, data, retrieved>>
    /\ UNCHANGED outsideThreads

\* a thread calls retrieve(key) and reaches `with self.lock`
call_retrieve(t, key) ==
    /\ threads[t].pc = "idle"
    /\ threads' = [threads EXCEPT ![t] =
                      [pc |-> "acquire", op |-> "retrieve", key |-> key, value |-> PyNone,
                       outcome |-> ""]]
    /\ UNCHANGED <<lock, data, retrieved>>
    /\ UNCHANGED outsideThreads

\* `with self.lock`, were the lock not to block
lock_acquire_unguarded(t) ==
    /\ threads[t].pc = "acquire"
    /\ lock' = TRUE
    /\ threads' = [threads EXCEPT ![t].pc = "body"]
    /\ UNCHANGED <<data, retrieved>>
    /\ UNCHANGED outsideThreads

\* `with self.lock`: __enter__ blocks until the lock is free, then holds it
lock_acquire(t) ==
    /\ threads[t].pc = "acquire"
    /\ ~lock
    /\ lock' = TRUE
    /\ threads' = [threads EXCEPT ![t].pc = "body"]
    /\ UNCHANGED <<data, retrieved>>
    /\ UNCHANGED outsideThreads

\* the body of store under the lock: the entry is built, then bound to the
\* key; an unhashable key raises TypeError
store_body(t) ==
    /\ threads[t].pc = "body"
    /\ threads[t].op = "store"
    /\ IF threads[t].key = UnhashableKey
       THEN /\ threads' = [threads EXCEPT ![t].pc = "exit", ![t].outcome = "TypeError"]
            /\ data' = data
       ELSE /\ threads' = [threads EXCEPT ![t].pc = "exit", ![t].outcome = "returned"]
            /\ data' = [data EXCEPT ![threads[t].key] =
                           [present |-> TRUE, value |-> threads[t].value,
                            timestamp |-> clock, type |-> type_name(threads[t].value)]]
    /\ UNCHANGED <<lock, retrieved>>
    /\ UNCHANGED outsideThreads

\* the body of retrieve under the lock
retrieve_body(t) ==
    /\ threads[t].pc = "body"
    /\ threads[t].op = "retrieve"
    /\ IF threads[t].key = UnhashableKey
       THEN /\ threads' = [threads EXCEPT ![t].pc = "exit", ![t].outcome = "TypeError"]
            /\ retrieved' = retrieved
       ELSE /\ threads' = [threads EXCEPT ![t].pc = "exit", ![t].outcome = "returned"]
            /\ retrieved' = [key |-> threads[t].key, value |-> retrieve(threads[t].key)]
    /\ UNCHANGED <<lock, data>>
    /\ UNCHANGED outsideThreads

\* the end of the with block: __exit__ releases the lock, whether the body
\* returned or raised, and the call ends
lock_release(t) ==
    /\ threads[t].pc = "exit"
    /\ lock' = FALSE
    /\ threads' = [threads EXCEPT ![t] = [IdleThread EXCEPT !.outcome = threads[t].outcome]]
    /\ UNCHANGED <<data, retrieved>>
    /\ UNCHANGED outsideThreads

\* the callbacks of a list up to and including the first one that raises
RECURSIVE until_first_failure(_, _)
until_first_failure(callbacks, i) ==
    IF i > Len(callbacks) THEN callbacks
    ELSE IF callbacks[i].raises THEN SubSeq(callbacks, 1, i)
    ELSE until_first_failure(callbacks, i + 1)

\* publish's loop, were the try to enclose the loop: the first Exception is
\* logged and ends the delivery
invoke_all_until_failure(callbacks, message) ==
    [i \in 1..Len(until_first_failure(callbacks, 1)) |->
        [callback |-> callbacks[i].name, message |-> message,
         logged |-> callbacks[i].raises]]

\* publish's loop over self.subscribers[topic]: every callback is called with
\* the message inside its own try; an Exception is logged and the loop goes on
invoke_all(callbacks, message) ==
    [i \in 1..Len(callbacks) |->
        [callback |-> callbacks[i].name, message |-> message,
         logged |-> callbacks[i].raises]]

\* MemoryBus.publish of main.py: synchronous, outside the lock
publish(topic, message) ==
    /\ delivered' = IF subscribers[topic].registered
                    THEN invoke_all(subscribers[topic].callbacks, message)
                    ELSE << >>
    /\ published' = [outcome |-> "returned", topic |-> topic, message |-> message]
    /\ UNCHANGED subscribers
    /\ UNCHANGED outsidePublish

(***************************************************************************)
(* EnhancedAgenticAISystem: the components and the status snapshot         *)
(* (main_enhanced.py 682-694, 827-840).                                    *)
(***************************************************************************)
\* self.data after MemoryBus.store(key, value)
stored(d, key, value) ==
    [d EXCEPT ![key] = [present |-> TRUE, value |-> value, timestamp |-> clock,
                        type |-> type_name(value)]]

\* datetime.now(), as a Python value
PyNow == [class |-> "datetime", repr |-> "now"]

\* what initialize_components does once api_integration.initialize() has
\* returned: self.memory_bus.store('system_start_time', datetime.now())
components_stored(d) ==
    IF init_pc' = "done" THEN stored(d, "system_start_time", PyNow) ELSE d

\* initialize_components from its call: api_integration.initialize() up to
\* the suspension of a probe, or, with no key set, to its end and the store
\* of the start time
initialize_components ==
    /\ loop_pc = "startup"
    /\ initialize_call
    /\ data' = components_stored(data)
    /\ UNCHANGED <<agentVars, scenarioVars, loopVars, clock, retrieved, publishVars,
                   threadVars, post_outcome>>

\* initialize_components from the answer of a probe's session.get: to the
\* suspension of the next probe, or to the end of initialize and the store of
\* the start time
initialize_components_resume(outcome) ==
    /\ loop_pc = "startup"
    /\ test_camel_ai_ends(outcome) \/ test_llm7_ends(outcome)
    /\ data' = components_stored(data)
    /\ UNCHANGED <<agentVars, scenarioVars, loopVars, clock, retrieved, publishVars,
                   threadVars, post_outcome>>

\* Ctrl+C in initialize_components once api_integration.initialize() has
\* ended, before the start time is stored
initialize_components_interrupted(outcome) ==
    /\ loop_pc = "startup"
    /\ initialize_call \/ test_camel_ai_ends(outcome) \/ test_llm7_ends(outcome)
    /\ init_pc' = "done"
    /\ loop_pc' = "interrupted"
    /\ UNCHANGED <<agentVars, scenarioVars, loop_count, cycle, faults, multi_agent_sessions,
                   memoryVars, publishVars, threadVars, post_outcome>>

\* get_enhanced_system_status: the status snapshot. The uptime subtracts
\* what retrieve('system_start_time') returns from datetime.now(): a value
\* that is not a datetime (None before initialize_components) raises
\* TypeError; a datetime was taken from the clock when its entry was stored
get_enhanced_system_status ==
    IF type_name(retrieve("system_start_time")) # "datetime"
    THEN [raised |-> "TypeError"]
    ELSE [timestamp |-> ToString(clock),
          total_agents |-> Cardinality(agents),
          active_agents |-> Cardinality({a \in agents : status[a] = "active"}),
          total_tasks_completed |-> TotalTasks(agents),
          api_integration |-> get_stats,
          multi_agent_sessions |-> Len(multi_agent_sessions),
          system_uptime |-> clock - data["system_start_time"].timestamp,
          agent_statuses |-> [a \in agents |-> status[a]]]

(***************************************************************************)
(* AgenticAISystem of main.py: startup and the system loop (main.py        *)
(* 349-458). Its agents have no router and no conversation history; a      *)
(* cycle has no suspension point before its asyncio.sleep(5), and is cut   *)
(* at the ends of the three methods it awaits.                             *)
(***************************************************************************)
\* the registered agents whose class overrides _process_task with a hook
\* that may raise
FailingAgents == {Maintained}

\* what the _process_task hooks of one dispatch do, per agent
HookOutcomes ==
    { [a \in Agents |-> IF a \in FailingAgents THEN f[a] ELSE "ok"] :
        f \in [FailingAgents -> ProcessOutcomes] }

\* str(e) of what the hook raised for the task of cycle n
process_error(n) == "task " \o ToString(n) \o " failed"

\* a Python int
PyInt(n) == [class |-> "int", repr |-> ToString(n)]

\* the variables main.py's system leaves alone
outsideMain == <<routerVars, conversations, scenarioVars, faults, multi_agent_sessions,
                 clock, retrieved, publishVars, threadVars, post_outcome>>

\* initialize_components of main.py: the start time is stored
main_initialize_components ==
    /\ loop_pc = "startup"
    /\ ~data["system_start_time"].present
    /\ data' = stored(data, "system_start_time", PyNow)
    /\ UNCHANGED <<status, tasks_completed, errors, agent_pc, agent_ret, agents,
                   loop_pc, loop_count, cycle>>
    /\ UNCHANGED outsideMain

\* initialize_agents of main.py: agent.initialize() of the next config, up to
\* its setup hook
main_initialize_agents(a) ==
    /\ loop_pc = "startup"
    /\ data["system_start_time"].present
    /\ next_config(a)
    /\ \A b \in Agents : agent_pc[b] = "ready"
    /\ BaseAgent_initialize(a)

\* initialize_agents of main.py: initialize() returns True and the agent is
\* registered (the setup hooks of main.py's agent classes do not raise)
main_initialize_agents_return(a) ==
    /\ loop_pc = "startup"
    /\ BaseAgent_initialize_return(a, "ok")

\* monitor_agents: the first method of a cycle stores the two metrics
monitor_agents ==
    /\ \/ /\ loop_pc = "startup"
          /\ data["system_start_time"].present
          /\ \A a \in Agents : status[a] \in {"active", "error"}
       \/ loop_pc = "cycle"
    /\ loop_count < MaxMainCycles
    /\ data' = stored(stored(data, "active_agents",
                             PyInt(Cardinality({a \in agents : status[a] = "active"}))),
                      "total_tasks_completed", PyInt(TotalTasks(agents)))
    /\ loop_pc' = "dispatch"
    /\ cycle' = NoCycle
    /\ UNCHANGED <<status, tasks_completed, errors, agent_pc, agent_ret, agents, loop_count>>
    /\ UNCHANGED outsideMain

\* BaseAgent.execute_task of main.py on the counters of one agent: the hook
\* returns and the task is counted, or it raises and str(e) is logged
main_execute_task(completed, log, hook, n) ==
    IF hook = "ok"
    THEN [tasks_completed |-> completed + 1, errors |-> log, status |-> "success"]
    ELSE [tasks_completed |-> completed, errors |-> Append(log, process_error(n)),
          status |-> "error"]

\* execute_autonomous_tasks: every registered agent whose status is 'active'
\* is given one task
execute_autonomous_tasks(hooks) ==
    /\ loop_pc = "dispatch"
    /\ LET given == {a \in agents : status[a] = "active"}
           r == [a \in Agents |->
                    main_execute_task(tasks_completed[a], errors[a], hooks[a], loop_count)]
       IN  /\ tasks_completed' =
                 [a \in Agents |-> IF a \in given THEN r[a].tasks_completed
                                   ELSE tasks_completed[a]]
           /\ errors' = [a \in Agents |-> IF a \in given THEN r[a].errors ELSE errors[a]]
           /\ cycle' = [dispatched |-> SelectSeq(agent_order, LAMBDA a : a \in given),
                        active_at_dispatch |-> given, phases |-> {"dispatch"}]
    /\ loop_pc' = "maintenance"
    /\ UNCHANGED <<status, agent_pc, agent_ret, agents, loop_count, data>>
    /\ UNCHANGED outsideMain

\* agent.errors[-5:], were the oldest five kept
trim_errors_keeps_oldest(log) ==
    IF Len(log) > 10 THEN SubSeq(log, 1, 5) ELSE log

\* if len(agent.errors) > 10: agent.errors = agent.errors[-5:]
trim_errors(log) ==
    IF Len(log) > 10 THEN SubSeq(log, Len(log) - 4, Len(log)) ELSE log

\* system_maintenance of main.py, up to the suspension at asyncio.sleep(5)
main_system_maintenance ==
    /\ loop_pc = "maintenance"
    /\ errors' = [a \in Agents |-> IF a \in agents THEN trim_errors(errors[a]) ELSE errors[a]]
    /\ cycle' = [cycle EXCEPT !.phases = @ \cup {"maintenance"}]
    /\ loop_pc' = "sleep"
    /\ UNCHANGED <<status, tasks_completed, agent_pc, agent_ret, agents, loop_count, data>>
    /\ UNCHANGED outsideMain

\* asyncio.sleep(5) is over: `while True` starts the next cycle
main_sleep_over ==
    /\ loop_pc = "sleep"
    /\ loop_pc' = "cycle"
    /\ loop_count' = loop_count + 1
    /\ UNCHANGED <<status, tasks_completed, errors, agent_pc, agent_ret, agents, cycle, data>>
    /\ UNCHANGED outsideMain

\* Ctrl+C while main.py's main is in its try block, raised where main stands:
\* in the try block of the while the KeyboardInterrupt handler breaks, in the
\* handler's asyncio.sleep(1) and during the startup the interrupt leaves for
\* the handlers of main. main.py has no finally: the system stays as it is.
main_interrupt ==
    /\ loop_pc \in {"startup", "backoff"} \/ InCycle
    /\ loop_pc' = IF InCycle THEN handler("KeyboardInterrupt") ELSE "interrupted"
    /\ agent_pc' = [a \in Agents |-> "ready"]
    /\ UNCHANGED <<status, tasks_completed, errors, agent_ret, agents, loop_count,
                   cycle, data>>
    /\ UNCHANGED outsideMain

\* Ctrl+C in main.py's initialize_agents after initialize() has set the
\* status 'active', before the agent is registered
main_initialize_agents_interrupted(a) ==
    /\ loop_pc = "startup"
    /\ agent_pc[a] = "setup"
    /\ status' = [status EXCEPT ![a] = "active"]
    /\ agent_pc' = [b \in Agents |-> "ready"]
    /\ loop_pc' = "interrupted"
    /\ UNCHANGED <<tasks_completed, errors, agent_ret, agents, loop_count, cycle, data>>
    /\ UNCHANGED outsideMain

\* Ctrl+C in monitor_agents between its two stores
monitor_agents_interrupted ==
    /\ \/ /\ loop_pc = "startup"
          /\ data["system_start_time"].present
          /\ \A a \in Agents : status[a] \in {"active", "error"}
       \/ loop_pc = "cycle"
    /\ loop_count < MaxMainCycles
    /\ data' = stored(data, "active_agents",
                      PyInt(Cardinality({a \in agents : status[a] = "active"})))
    /\ loop_pc' = handler("KeyboardInterrupt")
    /\ cycle' = NoCycle
    /\ UNCHANGED <<status, tasks_completed, errors, agent_pc, agent_ret, agents, loop_count>>
    /\ UNCHANGED outsideMain

\* execute_autonomous_tasks when its loop has handled the first k registered
\* agents: the counters of the agents, and the agents given a task so far
tasks_given(k, hooks) ==
    LET given == {a \in agents : status[a] = "active"
                                 /\ \E i \in 1..k : registered[i] = a}
        r == [a \in Agents |->
                 main_execute_task(tasks_completed[a], errors[a], hooks[a], loop_count)]
    IN  [tasks_completed |->
             [a \in Agents |-> IF a \in given THEN r[a].tasks_completed
                               ELSE tasks_completed[a]],
         errors |-> [a \in Agents |-> IF a \in given THEN r[a].errors ELSE errors[a]],
         dispatched |-> SelectSeq(agent_order, LAMBDA a : a \in given)]

\* Ctrl+C in execute_autonomous_tasks when it has handled the first k
\* registered agents, and not the last one yet
execute_autonomous_tasks_interrupted(hooks, k) ==
    /\ loop_pc = "dispatch"
    /\ k \in 1..(Len(registered) - 1)
    /\ LET handled == tasks_given(k, hooks)
       IN  /\ tasks_completed' = handled.tasks_completed
           /\ errors' = handled.errors
           /\ cycle' = [dispatched |-> handled.dispatched,
                        active_at_dispatch |-> {a \in agents : status[a] = "active"},
                        phases |-> {}]
    /\ loop_pc' = handler("KeyboardInterrupt")
    /\ UNCHANGED <<status, agent_pc, agent_ret, agents, loop_count, data>>
    /\ UNCHANGED outsideMain

\* the registered agent given a class whose execute_task raises (BaseAgent's
\* catches every Exception)
Unguarded == "ui_designer"

\* the hooks of a dispatch in which every _process_task returns
AllReturn == [a \in Agents |-> "ok"]

\* execute_autonomous_tasks when the execute_task of the unguarded agent
\* raises: the agents before it were handled, the handler of the loop logs
\* the exception and backs off
main_dispatch_raises ==
    /\ loop_pc = "dispatch"
    /\ faults < MaxFaults
    /\ \E k \in 0..(Len(registered) - 1) :
          /\ registered[k + 1] = Unguarded
          /\ status[Unguarded] = "active"
          /\ LET handled == tasks_given(k, AllReturn)
             IN  /\ tasks_completed' = handled.tasks_completed
                 /\ errors' = handled.errors
                 /\ cycle' = [dispatched |-> handled.dispatched,
                              active_at_dispatch |-> {a \in agents : status[a] = "active"},
                              phases |-> {}]
    /\ faults' = faults + 1
    /\ loop_pc' = handler("Exception")
    /\ UNCHANGED <<status, agent_pc, agent_ret, agents, loop_count, data>>
    /\ UNCHANGED <<routerVars, conversations, scenarioVars, multi_agent_sessions, clock,
                   retrieved, publishVars, threadVars, post_outcome>>

\* the handler's asyncio.sleep(1) is over: `while True` starts another cycle
main_backoff_over ==
    /\ loop_pc = "backoff"
    /\ loop_pc' = "cycle"
    /\ UNCHANGED <<status, tasks_completed, errors, agent_pc, agent_ret, agents, loop_count,
                   cycle, data>>
    /\ UNCHANGED outsideMain

\* main.py's system is the one running: the start time is stored and there
\* is no APIIntegration to initialize
RunsMain == init_pc = "new" /\ data["system_start_time"].present

(***************************************************************************)
(* The router on its own: the probe, then any interleaving of callers.     *)
(***************************************************************************)
RouterInit ==
    /\ camel_ai_key \in Keys
    /\ llm7_key \in Keys
    /\ camel_ai_enabled = FALSE
    /\ llm7_enabled = FALSE
    /\ stats = [t \in Tiers |-> [requests |-> 0, success |-> 0, errors |-> 0]]
    /\ init_pc = "new"
    /\ probe_calls = [t \in RemoteTiers |-> 0]
    /\ probe_result = [t \in RemoteTiers |-> "none"]
    /\ calls = [c \in Callers |-> IdleCall]

ScenarioInit ==
    /\ session = NoSession
    /\ scenario_pc = IdleScenario

LoopInit ==
    /\ loop_pc = "startup"
    /\ loop_count = 0
    /\ cycle = NoCycle
    /\ faults = 0
    /\ multi_agent_sessions = << >>

MemoryInit ==
    /\ data = [k \in MemoryKeys \cup MetricKeys |-> NoEntry]
    /\ clock = 0
    /\ retrieved = [key |-> "", value |-> PyNone]

\* MemoryBus.__init__: self.subscribers = {}
PublishInit ==
    /\ subscribers = [t \in Topics |-> NoTopic]
    /\ delivered = << >>
    /\ published = NoPublish

\* MemoryBus.__init__: self.lock = threading.Lock()
ThreadInit ==
    /\ lock = FALSE
    /\ threads = [t \in Threads |-> IdleThread]

SystemInit ==
    /\ RouterInit /\ AgentInit /\ ScenarioInit /\ LoopInit /\ MemoryInit /\ ThreadInit
    /\ post_outcome = [c \in Callers |-> "none"]

Init == SystemInit /\ PublishInit

Next ==
    \/ initialize
    \/ \E o \in ProbeOutcomes : test_camel_ai(o)
    \/ \E o \in ProbeOutcomes : test_llm7(o)
    \/ \E c \in Clients, p \in Preferences, k \in CapabilityInputs :
          generate_response(c, p, k)
    \/ \E c \in Clients, o \in PostOutcomes : remote_answer(c, o)
    \/ \E c \in Clients : take_result(c)

Spec == Init /\ [][Next]_vars

(***************************************************************************)
(* The router with both keys configured, its remote waits bounded by the   *)
(* session's timeout: a suspended session.post always ends.                *)
(***************************************************************************)
InitBounded == Init /\ camel_ai_key = "real_key" /\ llm7_key = "real_key"

\* the capabilities of the callers whose waits are followed: a list of
\* strings, or None
WaitingCapabilities == { Caps({"shell", "automation"}), NoCaps }

NextBounded ==
    \/ initialize
    \/ \E o \in ProbeOutcomes : test_camel_ai(o)
    \/ \E o \in ProbeOutcomes : test_llm7(o)
    \/ \E c \in Clients, p \in Preferences, k \in WaitingCapabilities :
          generate_response(c, p, k)
    \/ \E c \in Clients, o \in PostOutcomes : session_post_ends(c, o)
    \/ \E c \in Clients : take_result(c)

SpecBounded ==
    /\ InitBounded
    /\ [][NextBounded]_vars
    /\ \A c \in Clients : WF_vars(\E o \in PostOutcomes : session_post_ends(c, o))

(***************************************************************************)
(* One agent instance, called in any order, over the probed router.        *)
(***************************************************************************)
NextAgent ==
    \/ initialize
    \/ \E o \in ProbeOutcomes : test_camel_ai(o)
    \/ \E o \in ProbeOutcomes : test_llm7(o)
    \/ BaseAgent_initialize(Instance)
    \/ \E h \in SetupOutcomes : BaseAgent_initialize_return(Instance, h)
    \/ \E t \in TaskInputs, h \in ProcessOutcomes : execute_task(Instance, t, h)
    \/ \E o \in PostOutcomes, h \in ProcessOutcomes : execute_task_resume(Instance, o, h)
    \/ shutdown

SpecAgent == Init /\ [][NextAgent]_vars

(***************************************************************************)
(* One scenario, run by the coordinator over the probed router.            *)
(***************************************************************************)
NextScenario ==
    \/ initialize
    \/ \E o \in ProbeOutcomes : test_camel_ai(o)
    \/ \E o \in ProbeOutcomes : test_llm7(o)
    \/ \E sc \in ScenarioInputs, ps \in ParticipantLists :
          create_multi_agent_scenario(sc, ps)
    \/ \E o \in PostOutcomes : scenario_answer(o)

SpecScenario == Init /\ [][NextScenario]_vars

(***************************************************************************)
(* One scenario with CAMEL_AI_API_KEY unset: the coordinator hands it to   *)
(* the local simulation.                                                   *)
(***************************************************************************)
InitSimulation == Init /\ camel_ai_key = "demo_key"

NextSimulation ==
    \/ initialize
    \/ \E o \in ProbeOutcomes : test_llm7(o)
    \/ \E sc \in SimulationInputs, ps \in ParticipantLists :
          create_multi_agent_scenario(sc, ps)

SpecSimulation == InitSimulation /\ [][NextSimulation]_vars

(***************************************************************************)
(* The users of the router once it is probed: an agent that is given       *)
(* tasks, as a loop cycle gives them, and the coordinator of the           *)
(* demonstration scenario.                                                 *)
(***************************************************************************)
\* what an awaited session.post can do, as long as the remote tiers have
\* failed fewer requests than the bound
FollowedOutcomes ==
    IF stats["camel_ai"].errors + stats["llm7"].errors < MaxPostFailures
    THEN PostOutcomes ELSE {"ok"}

NextUsers ==
    \/ initialize
    \/ \E o \in ProbeOutcomes : test_camel_ai(o)
    \/ \E o \in ProbeOutcomes : test_llm7(o)
    \/ execute_task(Instance, "task", "ok")
    \/ \E o \in FollowedOutcomes : execute_task_resume(Instance, o, "ok")
    \/ create_multi_agent_scenario(demo_scenario, demo_agents)
    \/ \E o \in FollowedOutcomes : scenario_answer(o)

SpecUsers == Init /\ [][NextUsers]_vars

(***************************************************************************)
(* The enhanced system as main runs it, with CAMEL_AI_API_KEY unset: the   *)
(* probe, the agents, the demonstration scenario, the system loop, then    *)
(* shutdown; Ctrl+C may come at any point.                                 *)
(***************************************************************************)
InitLoop == Init /\ camel_ai_key = "demo_key"

NextLoop ==
    \/ initialize_components
    \/ \E o \in ProbeOutcomes : initialize_components_resume(o)
    \/ \E o \in ProbeOutcomes : initialize_components_interrupted(o)
    \/ \E a \in Agents : initialize_agents(a)
    \/ \E a \in Agents : initialize_agents_return(a)
    \/ \E a \in Agents : initialize_agents_interrupted(a, "ok")
    \/ run_enhanced_demo
    \/ enter_loop
    \/ execute_enhanced_autonomous_tasks
    \/ dispatch_interrupted
    \/ \E o \in FollowedOutcomes : task_answer(o)
    \/ \E o \in FollowedOutcomes : task_interrupted(o)
    \/ \E p \in StatusOutcomes : maintenance_and_status(p)
    \/ maintenance_interrupted
    \/ next_cycle
    \/ backoff_over
    \/ interrupt
    \/ main_finally
    \/ shutdown_agents
    \/ \E k \in 0..Len(agent_order) : shutdown_interrupted(k)

SpecLoop == InitLoop /\ [][NextLoop]_vars

(***************************************************************************)
(* The enhanced system with no key set and agent classes whose setup hook  *)
(* may raise: only the agents whose initialize() returned True are kept.   *)
(***************************************************************************)
\* the agents given a class whose setup hook may raise
RaisingSetups == {"cybershell", "data_sync"}

\* what the setup hook of an agent can do
setup_outcomes(a) == IF a \in RaisingSetups THEN SetupOutcomes ELSE {"ok"}

InitRegistry == Init /\ camel_ai_key = "demo_key" /\ llm7_key = "demo_key"

NextRegistry ==
    \/ initialize_components
    \/ \E o \in ProbeOutcomes : initialize_components_interrupted(o)
    \/ \E a \in Agents : initialize_agents(a)
    \/ \E a \in Agents : \E h \in setup_outcomes(a) : initialize_agents_setup_ends(a, h)
    \/ \E a \in Agents : \E h \in setup_outcomes(a) : initialize_agents_interrupted(a, h)
    \/ run_enhanced_demo
    \/ enter_loop
    \/ execute_enhanced_autonomous_tasks
    \/ dispatch_interrupted
    \/ \E p \in StatusOutcomes : maintenance_and_status(p)
    \/ maintenance_interrupted
    \/ next_cycle
    \/ backoff_over
    \/ interrupt
    \/ main_finally
    \/ shutdown_agents
    \/ \E k \in 0..Len(agent_order) : shutdown_interrupted(k)

SpecRegistry == InitRegistry /\ [][NextRegistry]_vars

(***************************************************************************)
(* The same system on the asyncio event loop: a coroutine that can run     *)
(* does run, and a sleep ends; Ctrl+C may come, at any point, or not.      *)
(***************************************************************************)
LoopRuns ==
    \/ initialize_components
    \/ \E a \in Agents : initialize_agents(a)
    \/ \E a \in Agents : \E h \in setup_outcomes(a) : initialize_agents_setup_ends(a, h)
    \/ run_enhanced_demo
    \/ enter_loop
    \/ execute_enhanced_autonomous_tasks
    \/ \E p \in StatusOutcomes : maintenance_and_status(p)
    \/ next_cycle
    \/ backoff_over
    \/ main_finally
    \/ shutdown_agents

SpecCycles == InitRegistry /\ [][NextRegistry]_vars /\ WF_vars(LoopRuns)

(***************************************************************************)
(* One registered agent whose logs fill up, and system_maintenance.        *)
(***************************************************************************)
NextMaintenance ==
    \/ initialize
    \/ \E o \in ProbeOutcomes : test_camel_ai(o)
    \/ \E o \in ProbeOutcomes : test_llm7(o)
    \/ BaseAgent_initialize(Maintained)
    \/ \E h \in SetupOutcomes : BaseAgent_initialize_return(Maintained, h)
    \/ \E t \in TaskInputs : log_task(Maintained, t)
    \/ system_maintenance

SpecMaintenance == Init /\ [][NextMaintenance]_vars

(***************************************************************************)
(* The system of main.py as its main runs it: the components, the agents,  *)
(* then the loop, until Ctrl+C, which may come at any point.               *)
(***************************************************************************)
InitMain == Init /\ camel_ai_key = "demo_key" /\ llm7_key = "demo_key"

NextMain ==
    \/ main_initialize_components
    \/ \E a \in Agents : main_initialize_agents(a)
    \/ \E a \in Agents : main_initialize_agents_return(a)
    \/ \E a \in Agents : main_initialize_agents_interrupted(a)
    \/ monitor_agents
    \/ monitor_agents_interrupted
    \/ \E h \in HookOutcomes : execute_autonomous_tasks(h)
    \/ \E h \in HookOutcomes, k \in 1..Len(agent_order) :
          execute_autonomous_tasks_interrupted(h, k)
    \/ main_system_maintenance
    \/ main_sleep_over
    \/ main_interrupt

SpecMain == InitMain /\ [][NextMain]_vars

(***************************************************************************)
(* The two systems, each as its main runs it with no key set, with agent   *)
(* classes whose execute_task may raise: the loops and their handlers.     *)
(***************************************************************************)
\* a step of the enhanced system
NextEnhanced ==
    \/ initialize_components
    \/ \E o \in ProbeOutcomes : initialize_components_interrupted(o)
    \/ \E a \in Agents : initialize_agents(a)
    \/ \E a \in Agents : initialize_agents_return(a)
    \/ \E a \in Agents : initialize_agents_interrupted(a, "ok")
    \/ run_enhanced_demo
    \/ enter_loop
    \/ execute_enhanced_autonomous_tasks
    \/ dispatch_interrupted
    \/ dispatch_raises
    \/ \E p \in StatusOutcomes : maintenance_and_status(p)
    \/ maintenance_interrupted
    \/ next_cycle
    \/ backoff_over
    \/ interrupt
    \/ main_finally
    \/ shutdown_agents
    \/ \E k \in 0..Len(agent_order) : shutdown_interrupted(k)

\* a step of main.py's system
NextPlain ==
    \/ main_initialize_components
    \/ \E a \in Agents : main_initialize_agents(a)
    \/ \E a \in Agents : main_initialize_agents_return(a)
    \/ \E a \in Agents : main_initialize_agents_interrupted(a)
    \/ monitor_agents
    \/ monitor_agents_interrupted
    \/ execute_autonomous_tasks(AllReturn)
    \/ \E k \in 1..Len(agent_order) : execute_autonomous_tasks_interrupted(AllReturn, k)
    \/ main_dispatch_raises
    \/ main_system_maintenance
    \/ main_sleep_over
    \/ main_backoff_over
    \/ main_interrupt

NextSystems ==
    \/ ~RunsMain /\ NextEnhanced
    \/ init_pc = "new" /\ NextPlain

SpecSystems == InitMain /\ [][NextSystems]_vars

(***************************************************************************)
(* The memory bus on its own: any sequence of store and retrieve calls.    *)
(***************************************************************************)
NextMemory ==
    \/ \E k \in MemoryKeys, v \in PyValues : store(k, v)
    \/ \E k \in MemoryKeys : retrieve_call(k)
    \/ tick

SpecMemory == Init /\ [][NextMemory]_vars

(***************************************************************************)
(* publish on a memory bus whose subscribers were registered by its users. *)
(***************************************************************************)
InitPublish ==
    /\ SystemInit
    /\ subscribers \in [Topics -> SubscriberInputs]
    /\ delivered = << >>
    /\ published = NoPublish

NextPublish ==
    \E t \in Topics, m \in Messages : publish(t, m)

SpecPublish == InitPublish /\ [][NextPublish]_vars

(***************************************************************************)
(* The memory bus called from OS threads. A thread that is running goes    *)
(* on running: the steps after the lock is taken are weakly fair.          *)
(***************************************************************************)
thread_runs(t) == store_body(t) \/ retrieve_body(t) \/ lock_release(t)

NextThreads ==
    \/ \E t \in Threads, k \in ThreadKeys, v \in ThreadValues : call_store(t, k, v)
    \/ \E t \in Threads, k \in ThreadKeys : call_retrieve(t, k)
    \/ \E t \in Threads : lock_acquire(t)
    \/ \E t \in Threads : store_body(t)
    \/ \E t \in Threads : retrieve_body(t)
    \/ \E t \in Threads : lock_release(t)

InitThreads == Init /\ camel_ai_key = "demo_key" /\ llm7_key = "demo_key"

SpecThreads ==
    InitThreads /\ [][NextThreads]_vars /\ \A t \in Threads : WF_vars(thread_runs(t))

(***************************************************************************)
(* Properties of the service router (checked under Spec).                  *)
(***************************************************************************)
Done(call) == call.pc \in {"returned", "raised"}

AnsweredLocally(call) ==
    /\ call.pc = "returned"
    /\ call.result.success
    /\ call.result.api_used = "local"

NoRemoteReachable == ~camel_ai_enabled /\ ~llm7_enabled

\* C1: with both remote tiers unreachable, generate_response selects the local
\* tier for every preference and, for an agent_config as AgentConfig declares
\* it (capabilities a list), returns success = true and api_used = 'local'.
C1_AllUnreachableAnswersLocal ==
    NoRemoteReachable =>
        \A c \in Callers :
            /\ ~Suspended(calls[c])
            /\ Done(calls[c]) => calls[c].selected = "local"
            /\ (Done(calls[c]) /\ calls[c].capabilities.iterable) => AnsweredLocally(calls[c])

C1_Witness ==
    /\ NoRemoteReachable
    /\ \E c \in Callers : calls[c].preference = "camel" /\ AnsweredLocally(calls[c])
    /\ \E c \in Callers : calls[c].preference = "camel_ai" /\ AnsweredLocally(calls[c])

\* C2: whenever no generate_response call is in flight, every tier's counters
\* satisfy requests = success + errors.
C2_RequestsAreSuccessPlusErrors ==
    (\A c \in Callers : ~Suspended(calls[c])) =>
        \A t \in Tiers : stats[t].requests = stats[t].success + stats[t].errors

\* the selection function as the specification words it
ReferenceSelection(preference, primary_reachable, secondary_reachable) ==
    CASE preference = "camel" -> IF primary_reachable THEN "camel_ai" ELSE "local"
      [] preference = "llm7"  -> IF secondary_reachable THEN "llm7" ELSE "local"
      [] preference = "auto"  -> IF primary_reachable THEN "camel_ai"
                                 ELSE IF secondary_reachable THEN "llm7" ELSE "local"
      [] OTHER                -> "local"

\* C3: select_api equals the reference selection for every preference and every
\* combination of the reachability flags, and every call was routed by it.
C3_SelectApiIsReference ==
    /\ \A p \in Preferences :
          select_api(p) = ReferenceSelection(p, camel_ai_enabled, llm7_enabled)
    /\ \A c \in Callers :
          calls[c].pc # "idle" =>
              calls[c].selected =
                  ReferenceSelection(calls[c].preference, camel_ai_enabled, llm7_enabled)

C3_Witness ==
    /\ ~camel_ai_enabled /\ llm7_enabled
    /\ \E c \in Callers : calls[c].preference = "auto" /\ calls[c].selected = "llm7"
    /\ \E c \in Callers : calls[c].preference = "camel" /\ calls[c].selected = "local"

OtherRemote(t) == IF t = "camel_ai" THEN "llm7" ELSE "camel_ai"

\* the step in which the remote tier of caller c answers
C4_AnswerStep(c) ==
    LET t == calls[c].selected
    IN  /\ calls'[c].selected = t
        /\ Done(calls'[c])
        /\ stats'[OtherRemote(t)] = stats[OtherRemote(t)]
        /\ IF calls'[c].result.api_used = t
           THEN /\ calls'[c].pc = "returned"
                /\ stats'[t].errors = stats[t].errors
                /\ stats'["local"] = stats["local"]
           ELSE /\ stats'[t].errors = stats[t].errors + 1
                /\ stats'["local"].requests = stats["local"].requests + 1
                /\ calls'[c].capabilities.iterable => AnsweredLocally(calls'[c])

\* the step in which remote tier t counts a failure
C4_FailureStep(t) ==
    /\ stats'[t].errors = stats[t].errors + 1
    /\ stats'[OtherRemote(t)] = stats[OtherRemote(t)]
    /\ stats'["local"].requests = stats["local"].requests + 1
    /\ \E c \in Callers :
          /\ ~Done(calls[c]) /\ Done(calls'[c])
          /\ \A d \in Callers \ {c} : calls'[d] = calls[d]
          /\ calls'[c].selected = t
          /\ calls'[c].result.api_used # t
          /\ calls'[c].capabilities.iterable => AnsweredLocally(calls'[c])

\* with primary reachable and secondary not, 'auto' is routed to primary and is
\* answered by primary or, once primary has failed, by local
C4_AutoRouting ==
    /\ \A c \in Callers :
          (Done(calls[c]) /\ calls[c].selected \in RemoteTiers
              /\ calls[c].result.api_used # calls[c].selected)
          => stats[calls[c].selected].errors >= 1
    /\ (camel_ai_enabled /\ ~llm7_enabled) =>
          /\ stats["llm7"].requests = 0
          /\ \A c \in Callers :
                (calls[c].preference = "auto" /\ calls[c].pc # "idle") =>
                    /\ calls[c].selected = "camel_ai"
                    /\ calls[c].result.api_used \in {"", "camel_ai", "local"}

\* C4: when the selected remote tier fails, its error counter goes up by one,
\* no other remote tier is tried, and the call is answered by the local tier
\* (the local tier's own failure is C7's case); 'auto' with only primary
\* reachable never reaches secondary.
C4_RemoteFailureFallsBackToLocal ==
    [][ /\ \A c \in Callers :
              (Suspended(calls[c]) /\ ~Suspended(calls'[c])) => C4_AnswerStep(c)
        /\ \A t \in RemoteTiers :
              stats'[t].errors # stats[t].errors => C4_FailureStep(t)
        /\ C4_AutoRouting' ]_vars

C4_Witness ==
    /\ camel_ai_enabled /\ ~llm7_enabled
    /\ stats["camel_ai"].errors = 1
    /\ \E c \in Callers :
          /\ calls[c].preference = "auto"
          /\ calls[c].selected = "camel_ai"
          /\ AnsweredLocally(calls[c])

InFlight(t) ==
    Cardinality({c \in Callers : Suspended(calls[c]) /\ calls[c].selected = t})

\* C5: in every reachable state, calls suspended at a remote tier included,
\* get_stats' totals are the sums of the three tiers' counters, and no request,
\* success or error of a tier is counted more than once.
C5_TotalsAreSums ==
    /\ get_stats.total_requests =
          stats["camel_ai"].requests + stats["llm7"].requests + stats["local"].requests
    /\ get_stats.total_success =
          stats["camel_ai"].success + stats["llm7"].success + stats["local"].success
    /\ get_stats.total_errors =
          stats["camel_ai"].errors + stats["llm7"].errors + stats["local"].errors
    /\ \A t \in Tiers : get_stats.apis[t].stats = stats[t]
    /\ \A t \in RemoteTiers :
          /\ stats[t].success + InFlight(t) <= stats[t].requests
          /\ stats[t].errors + InFlight(t) <= stats[t].requests
          /\ stats[t].requests <= stats[t].success + stats[t].errors + InFlight(t)

C5_Witness ==
    /\ InFlight("camel_ai") = 1
    /\ InFlight("llm7") = 1
    /\ get_stats.total_requests = 2

\* C6: no step decreases or resets a requests, success or errors counter.
C6_CountersNeverDecrease ==
    [][ \A t \in Tiers :
            /\ stats'[t].requests >= stats[t].requests
            /\ stats'[t].success >= stats[t].success
            /\ stats'[t].errors >= stats[t].errors ]_vars

C6_Witness ==
    /\ stats["local"].errors >= 1
    /\ stats["local"].success >= 1
    /\ stats["camel_ai"].errors >= 1

\* the caller whose generate_response ended in this step
EndedNow(c) == ~Done(calls[c]) /\ Done(calls'[c])

C7_Raised ==
    \A c \in Callers :
        /\ calls[c].pc = "raised" =>
              /\ calls[c].result = NoResult
              /\ calls[c].error = "Local processing failed"
              /\ ~calls[c].capabilities.iterable
              /\ stats["local"].errors >= 1
        /\ (Done(calls[c]) /\ ~calls[c].capabilities.iterable
               /\ calls[c].result.api_used \notin RemoteTiers)
           => calls[c].pc = "raised"

\* C7: a failure of use_local, as the selected tier or as the fallback, makes
\* generate_response raise instead of returning a result, and the local tier's
\* error counter records it.
C7_LocalFailurePropagates ==
    [][ /\ C7_Raised'
        /\ (stats'["local"].errors > stats["local"].errors)
              <=> (\E c \in Callers : EndedNow(c) /\ calls'[c].pc = "raised") ]_vars

C7_Witness ==
    /\ calls["c1"].pc = "raised" /\ calls["c1"].selected = "local"
    /\ calls["c2"].pc = "raised" /\ calls["c2"].selected = "camel_ai"

KeyOf(t) == IF t = "camel_ai" THEN camel_ai_key ELSE llm7_key

EnabledOf(t) == IF t = "camel_ai" THEN camel_ai_enabled ELSE llm7_enabled

ProbeStep ==
    \/ initialize
    \/ \E o \in ProbeOutcomes : test_camel_ai(o)
    \/ \E o \in ProbeOutcomes : test_llm7(o)

\* C8: a placeholder key leaves its tier unreachable with no network call; a
\* probe that raises or answers another status leaves its tier unreachable and
\* startup goes on to the other tier and completes; a tier is reachable only
\* if its probe answered 200.
C8_StartupProbe ==
    /\ init_pc \in {"new", "probe_camel_ai", "probe_llm7", "done"}
    /\ init_pc # "done" => ENABLED ProbeStep
    /\ \A t \in RemoteTiers :
          /\ KeyOf(t) = "demo_key" => (probe_calls[t] = 0 /\ ~EnabledOf(t))
          /\ EnabledOf(t) => probe_result[t] = "status_200"
          /\ init_pc = "done" =>
                /\ EnabledOf(t) <=> probe_result[t] = "status_200"
                /\ IF KeyOf(t) = "demo_key"
                   THEN probe_result[t] = "skipped"
                   ELSE probe_calls[t] = 1 /\ probe_result[t] \in ProbeOutcomes

C8_Witness ==
    /\ init_pc = "done"
    /\ probe_result["camel_ai"] = "raised" /\ ~camel_ai_enabled
    /\ probe_result["llm7"] = "status_200" /\ llm7_enabled

\* the step in which the wait of caller c is ended by the timeout
C24_TimeoutStep(c) ==
    LET t == calls[c].selected
    IN  /\ stats'[t].errors = stats[t].errors + 1
        /\ stats'[t].success = stats[t].success
        /\ stats'[t].requests = stats[t].requests
        /\ stats'["local"].requests = stats["local"].requests + 1
        /\ Done(calls'[c])
        /\ calls'[c].result.api_used # t
        /\ calls'[c].capabilities.iterable => AnsweredLocally(calls'[c])
        /\ \A o \in {"transport_error", "status_other", "bad_json"} :
              generate_response_resume(stats, calls[c], o) =
                  generate_response_resume(stats, calls[c], "timeout")

\* C24 (checked under SpecBounded): a generate_response call that is
\* suspended at a remote tier eventually returns or raises; when the wait is
\* ended by the timeout the tier's error counter goes up by one and the local
\* tier answers, exactly as for any other failure of the remote tier.
C24_EveryCallEnds ==
    /\ [][ \A c \in Clients :
              (Suspended(calls[c]) /\ post_outcome'[c] = "timeout"
                  /\ calls'[c] # calls[c]) => C24_TimeoutStep(c) ]_vars
    /\ \A c \in Clients : Suspended(calls[c]) ~> Done(calls[c])

C24_Witness ==
    /\ post_outcome["c1"] = "timeout"
    /\ calls["c1"].selected = "llm7"
    /\ AnsweredLocally(calls["c1"])
    /\ stats["llm7"] = [requests |-> 1, success |-> 0, errors |-> 1]
    /\ Suspended(calls["c2"])

\* by how much a step raises the request counter of tier t
RequestsAdded(t) == stats'[t].requests - stats[t].requests

\* C31: a step of a generate_response call (its start, or the answer of its
\* remote tier) raises no tier's request counter by more than 1: the start
\* raises the selected tier's by exactly 1, and the local tier's is raised, by
\* exactly 1, only when the selected tier is remote and has failed.
C31_AtMostOneRequestPerTier ==
    [][ \A c \in Callers :
          (calls'[c] # calls[c] /\ calls'[c].pc # "idle") =>
              LET t == calls'[c].selected
                  started == calls[c].pc = "idle"
                  remote_failed == t \in RemoteTiers
                                      /\ stats'[t].errors > stats[t].errors
              IN  /\ \A u \in Tiers : RequestsAdded(u) \in {0, 1}
                  /\ RequestsAdded(t) = (IF started THEN 1 ELSE 0)
                  /\ t \in RemoteTiers =>
                        RequestsAdded("local") = (IF remote_failed THEN 1 ELSE 0)
                  /\ \A u \in RemoteTiers \ {t} : RequestsAdded(u) = 0 ]_vars

(***************************************************************************)
(* Properties of the agent lifecycle (checked under SpecAgent).            *)
(***************************************************************************)
\* C9: initialize sets 'initializing' and awaits the setup hook; if the hook
\* raises, the status becomes 'error', exactly one entry is appended to the
\* error log, tasks_completed is unchanged and False is returned; if it
\* succeeds, the status becomes 'active', the log is unchanged and True is
\* returned. On a fresh agent: one entry, tasks_completed = 0.
C9_InitializeOutcome ==
    [][ \A a \in Agents :
          /\ (agent_pc[a] = "ready" /\ agent_pc'[a] = "setup") =>
                /\ status'[a] = "initializing"
                /\ errors'[a] = errors[a]
                /\ tasks_completed'[a] = tasks_completed[a]
                /\ conversations'[a] = conversations[a]
          /\ (agent_pc[a] = "setup" /\ agent_pc'[a] = "ready") =>
                /\ tasks_completed'[a] = tasks_completed[a]
                /\ conversations'[a] = conversations[a]
                /\ \/ /\ status'[a] = "error"
                      /\ errors'[a] = Append(errors[a], "setup failed")
                      /\ agent_ret'[a].value = "False"
                   \/ /\ status'[a] = "active"
                      /\ errors'[a] = errors[a]
                      /\ agent_ret'[a].value = "True"
          /\ (status'[a] = "error" /\ status[a] # "error"
                 /\ tasks_completed[a] = 0 /\ errors[a] = << >>)
             => (tasks_completed'[a] = 0 /\ Len(errors'[a]) = 1) ]_vars

C9_Witness ==
    /\ status[Instance] = "error"
    /\ agent_pc[Instance] = "ready"
    /\ agent_ret[Instance].value = "False"
    /\ tasks_completed[Instance] = 0
    /\ errors[Instance] = <<"setup failed">>

\* the transitions of section 4.3
AllowedTransitions ==
    { <<"initialized", "initializing">>, <<"initializing", "active">>,
      <<"initializing", "error">>, <<"active", "terminated">> }

\* C10: under any sequence of initialize, execute_task and shutdown calls the
\* status only follows initialized -> initializing -> active | error and
\* active -> terminated.
C10_StatusTransitions ==
    [][ \A a \in Agents :
            status'[a] # status[a] => <<status[a], status'[a]>> \in AllowedTransitions ]_vars

\* the step in which an execute_task call of agent a ends
TaskEnded(a) ==
    /\ agent_pc[a] \in {"ready", "routing"}
    /\ agent_pc'[a] = "ready"
    /\ \/ agent_pc[a] = "routing"
       \/ errors'[a] # errors[a]
       \/ tasks_completed'[a] # tasks_completed[a]

\* C11: execute_task never raises: it ends by returning 'success' or 'error';
\* when an exception was caught (prompt construction, routing, result
\* processing) exactly one entry, the returned message, is appended to the
\* error log, and tasks_completed and the conversation history are unchanged.
C11_TaskFailureIsReturned ==
    [][ \A a \in Agents :
          TaskEnded(a) =>
              /\ agent_ret'[a].value \in {"success", "error"}
              /\ agent_ret'[a].value = "error" =>
                    /\ errors'[a] = Append(errors[a], agent_ret'[a].error)
                    /\ agent_ret'[a].error # ""
                    /\ tasks_completed'[a] = tasks_completed[a]
                    /\ conversations'[a] = conversations[a]
              /\ errors'[a] # errors[a] => agent_ret'[a].value = "error" ]_vars

C11_Witness ==
    /\ agent_ret[Instance] = [value |-> "error", api_used |-> "", error |-> "processing failed"]
    /\ calls[Instance].pc = "returned"
    /\ errors[Instance] = <<"prompt failed", "processing failed">>
    /\ tasks_completed[Instance] = 0
    /\ conversations[Instance] = << >>

\* C12: a successful execute_task makes one generate_response call (one tier
\* request, and one more of the local tier only when the remote tier failed),
\* appends one entry (task, prompt, raw result, processed result) to the
\* conversation history, adds one to tasks_completed, leaves the error log
\* unchanged and returns api_used of the tier that produced the content.
C12_TaskSuccess ==
    [][ \A a \in Agents :
          (TaskEnded(a) /\ agent_ret'[a].value = "success") =>
              LET call == calls'[a]
                  fell_back == call.selected \in RemoteTiers
                                  /\ stats'[call.selected].errors > stats[call.selected].errors
              IN  /\ call.pc = "returned" /\ call.result.success
                  /\ tasks_completed'[a] = tasks_completed[a] + 1
                  /\ errors'[a] = errors[a]
                  /\ conversations'[a] =
                        Append(conversations[a],
                               [task |-> "task", prompt |-> "prompt", result |-> call.result,
                                processed |-> call.result.content])
                  /\ agent_ret'[a].api_used = call.result.api_used
                  /\ call.result.api_used = (IF fell_back THEN "local" ELSE call.selected)
                  /\ total_requests(stats') - total_requests(stats) =
                        (IF agent_pc[a] = "routing" THEN 0 ELSE 1) + (IF fell_back THEN 1 ELSE 0)
                  /\ \A c \in Callers \ {a} : calls'[c] = calls[c] ]_vars

C12_Witness ==
    /\ agent_ret[Instance] = [value |-> "success", api_used |-> "local", error |-> ""]
    /\ calls[Instance].selected = "camel_ai"
    /\ stats["camel_ai"].errors = 1
    /\ tasks_completed[Instance] = 1
    /\ Len(conversations[Instance]) = 1
    /\ errors[Instance] = << >>

\* the statuses an agent instance can have
Statuses == {"initialized", "initializing", "active", "error", "terminated"}

\* a step of an execute_task call of agent a: its start, or its end
C37_TaskStep(a) ==
    \/ agent_pc[a] = "ready" /\ agent_pc'[a] = "routing"
    \/ TaskEnded(a)

\* C37 (checked under SpecAgent): execute_task can be called on an agent in
\* any status, with the same conditions as on an 'active' one; no step of it
\* changes the status, whether the task succeeds or fails; a task that
\* succeeds is counted and recorded whatever the status is.
C37_ExecuteTaskIgnoresStatus ==
    /\ [](\A a \in {Instance} :
            /\ status[a] \in Statuses
            /\ (Callable(a) /\ init_pc = "done") =>
                  \A t \in TaskInputs, h \in ProcessOutcomes : ENABLED execute_task(a, t, h))
    /\ [][ \A a \in Agents :
              C37_TaskStep(a) =>
                  /\ status'[a] = status[a]
                  /\ (TaskEnded(a) /\ agent_ret'[a].value = "success") =>
                        /\ tasks_completed'[a] = tasks_completed[a] + 1
                        /\ Len(conversations'[a]) = Len(conversations[a]) + 1 ]_vars

C37_Witness ==
    /\ status[Instance] = "error"
    /\ errors[Instance] = <<"setup failed">>
    /\ agent_ret[Instance].value = "success"
    /\ tasks_completed[Instance] = 1
    /\ Len(conversations[Instance]) = 1

(***************************************************************************)
(* Properties of the scenario coordinator (checked under SpecScenario).    *)
(***************************************************************************)
\* the (round, agent) of the k-th message of a transcript in round-major order
RoundMajorRound(k, n) == ((k - 1) \div n) + 1

RoundMajorAgent(k, participants) ==
    participants[((k - 1) % Len(participants)) + 1].name

InRoundMajorOrder(messages, participants) ==
    \A k \in 1..Len(messages) :
        /\ Len(participants) > 0
        /\ messages[k].round = RoundMajorRound(k, Len(participants))
        /\ messages[k].agent = RoundMajorAgent(k, participants)

\* C13: a scenario that completes with R rounds (3 when 'rounds' is absent)
\* and n participants has a transcript of exactly R*n messages in round-major
\* order, on the router path and on the local-simulation path.
C13_TranscriptIsRoundMajor ==
    session.status = "completed" =>
        /\ Len(session.messages) = rounds(session.scenario) * Len(session.agents)
        /\ InRoundMajorOrder(session.messages, session.agents)
        /\ \A k \in 1..Len(session.messages) :
              IF scenario_pc.path = "router"
              THEN session.messages[k].api_used \in Tiers
              ELSE session.messages[k].api_used = "local_simulation"

C13_Witness ==
    /\ session.status = "completed"
    /\ scenario_pc.path = "router"
    /\ ~session.scenario.has_rounds
    /\ Len(session.agents) = 2
    /\ Len(session.messages) = 6
    /\ session.messages[3] =
          [round |-> 2, agent |-> "p1", role |-> "r1", content |-> "camel_ai_text",
           api_used |-> "camel_ai"]

\* C14: an exception while a scenario runs, on either path, is not raised to
\* the caller: a session is returned with status 'error', the exception text,
\* and the transcript built so far, in round-major order.
C14_ScenarioFailureIsReturned ==
    /\ scenario_pc.pc # "raised"
    /\ scenario_pc.pc = "returned" => session.status \in {"completed", "error"}
    /\ session.status = "error" =>
          /\ session.error # ""
          /\ InRoundMajorOrder(session.messages, session.agents)

\* C15: the local simulation is used exactly when no remote tier is
\* reachable; with a remote tier reachable every message comes from
\* generate_response.
C15_LocalSimulationIffNoRemote ==
    scenario_pc.pc # "idle" =>
        /\ scenario_pc.path = "local_simulation" <=> NoRemoteReachable
        /\ ~NoRemoteReachable =>
              \A k \in 1..Len(session.messages) : session.messages[k].api_used \in Tiers

\* the transcript entries k-3 .. k-1, fewer when k <= 3
EntriesBefore(messages, k) ==
    SubSeq(messages, IF k > 3 THEN k - 3 ELSE 1, k - 1)

\* C26: on the router path the request for the k-th message is issued only
\* when k-1 messages are in the transcript, a request is in flight only while
\* the coordinator waits for it, and the prompt of the k-th message embeds
\* the last min(3, k-1) entries of the transcript, in transcript order.
C26_MessagesAreSequential ==
    scenario_pc.path = "router" =>
        LET prompts == scenario_pc.prompts
            messages == session.messages
        IN  /\ Len(prompts) \in {Len(messages), Len(messages) + 1}
            /\ Suspended(calls[Coordinator]) <=> scenario_pc.pc = "post"
            /\ scenario_pc.pc = "post" => Len(prompts) = Len(messages) + 1
            /\ session.status = "completed" => Len(prompts) = Len(messages)
            /\ \A k \in 1..Len(prompts) :
                  /\ Len(prompts[k].previous) = (IF k - 1 < 3 THEN k - 1 ELSE 3)
                  /\ prompts[k].previous = EntriesBefore(messages, k)
                  /\ k <= Len(messages) =>
                        (prompts[k].name = messages[k].agent
                            /\ prompts[k].round = messages[k].round)

C26_Witness ==
    /\ scenario_pc.path = "router"
    /\ scenario_pc.pc = "post"
    /\ Len(session.messages) = 5
    /\ Len(scenario_pc.prompts) = 6
    /\ scenario_pc.prompts[6].previous =
          << [round |-> 2, agent |-> "p1", role |-> "r1", content |-> "general",
              api_used |-> "local"],
             [round |-> 2, agent |-> "p2", role |-> "r2", content |-> "camel_ai_text",
              api_used |-> "camel_ai"],
             [round |-> 3, agent |-> "p1", role |-> "r1", content |-> "camel_ai_text",
              api_used |-> "camel_ai"] >>

\* the backends named by the messages of the session
BackendsUsed == {session.messages[k].api_used : k \in 1..Len(session.messages)}

\* C36: a scenario handed to the local simulation leaves the statistics of
\* every tier, both reachability flags and every generate_response coroutine
\* as they were, and all of its messages name 'local_simulation'; on the
\* router path every message names 'camel_ai' or 'local', the secondary tier
\* is never asked, and no message names 'local_simulation'.
C36_SimulationBypassesRouter ==
    /\ [](/\ scenario_pc.path = "local_simulation" => BackendsUsed \subseteq {"local_simulation"}
          /\ scenario_pc.path = "router" =>
                /\ BackendsUsed \subseteq {"camel_ai", "local"}
                /\ calls[Coordinator].selected \in {"", "camel_ai"}
          /\ stats["llm7"].requests = 0)
    /\ [][ scenario_pc'.path = "local_simulation" =>
              /\ stats' = stats
              /\ calls' = calls
              /\ camel_ai_enabled' = camel_ai_enabled
              /\ llm7_enabled' = llm7_enabled ]_vars

C36_Witness ==
    /\ scenario_pc.path = "local_simulation"
    /\ session.status = "completed"
    /\ Len(session.messages) = 4
    /\ BackendsUsed = {"local_simulation"}
    /\ llm7_enabled /\ ~camel_ai_enabled
    /\ camel_ai_key = "real_key"
    /\ total_requests(stats) = 0

Ended(sess) == sess.status \in {"completed", "error"}

\* C27: a session starts 'active'; its status changes at most once, to
\* 'completed' or to 'error'; it has an end timestamp exactly when it is
\* 'completed'; once it is 'completed' or 'error' no message is appended and
\* no field changes; while it is 'active' messages are only appended.
C27_SessionStatusChangesOnce ==
    [][ /\ session'.has_end_time <=> session'.status = "completed"
        /\ session.status = "none" => session'.status \in {"none", "active", "completed", "error"}
        /\ session.status = "active" =>
              /\ session'.status \in {"active", "completed", "error"}
              /\ Len(session'.messages) >= Len(session.messages)
              /\ SubSeq(session'.messages, 1, Len(session.messages)) = session.messages
              /\ session'.scenario = session.scenario
              /\ session'.agents = session.agents
        /\ Ended(session) => session' = session ]_vars

C27_Witness ==
    /\ scenario_pc.path = "router"
    /\ session.status = "error"
    /\ session.error = "Local processing failed"
    /\ Len(session.messages) = 1
    /\ ~session.has_end_time
    /\ calls[Coordinator].pc = "raised"

\* the number of canned openers
OpenerCount == Len(responses)

\* the message the simulation records for participant p in round r (1-based)
SimulatedMessage(r, p) ==
    [round |-> r, agent |-> p.name, role |-> p.role,
     content |-> responses[((r - 1) % OpenerCount) + 1]
                     \o " (Local simulation by " \o p.name \o ")",
     api_used |-> "local_simulation"]

\* C29 (checked under SpecSimulation): a simulated session is determined by
\* the scenario and the participants alone: its k-th message is the one of
\* round ((k-1) div n) + 1 and participant ((k-1) mod n) + 1, whose content is
\* opener (r-1) mod 5 followed by the suffix naming the participant; so the
\* participants of a round share the opener, and rounds r and r+5 do.
C29_SimulationIsDeterministic ==
    (scenario_pc.path = "local_simulation" /\ scenario_pc.pc = "returned") =>
        LET n == Len(session.agents)
        IN  /\ OpenerCount = 5
            /\ session.status = "completed"
            /\ Len(session.messages) = rounds(session.scenario) * n
            /\ \A k \in 1..Len(session.messages) :
                  session.messages[k] =
                      SimulatedMessage(((k - 1) \div n) + 1, session.agents[((k - 1) % n) + 1])

C29_Witness ==
    /\ scenario_pc.path = "local_simulation"
    /\ session.status = "completed"
    /\ session.scenario.rounds = 6
    /\ Len(session.agents) = 2
    /\ session.messages[1].content =
          "I believe we should take a systematic approach to this challenge... (Local simulation by p1)"
    /\ session.messages[12].round = 6
    /\ session.messages[12].content =
          "I believe we should take a systematic approach to this challenge... (Local simulation by p2)"

(***************************************************************************)
(* Properties of the system loop (checked under SpecLoop, SpecSystems and  *)
(* SpecUsers) and of system_maintenance (checked under SpecMaintenance).   *)
(***************************************************************************)
TasksGiven(a) == Cardinality({i \in 1..Len(cycle.dispatched) : cycle.dispatched[i] = a})

\* C16: in each cycle every agent that is active at dispatch time is given
\* exactly one task, and no other agent is given one.
C16_EveryActiveAgentGetsOneTask ==
    "dispatch" \in cycle.phases =>
        \A a \in Agents :
            TasksGiven(a) = (IF a \in cycle.active_at_dispatch THEN 1 ELSE 0)

LastEntries(log, n) == SubSeq(log, Len(log) - n + 1, Len(log))

\* C17: a maintenance pass leaves every registered agent with at most 10
\* error entries and at most 20 conversations: a longer error log becomes
\* its last 5 entries, a longer conversation history its last 10, and the
\* others are unchanged.
C17_MaintenanceBoundsLogs ==
    [][ system_maintenance =>
          \A a \in agents :
              /\ Len(errors'[a]) <= 10
              /\ Len(conversations'[a]) <= 20
              /\ errors'[a] = (IF Len(errors[a]) > 10
                               THEN LastEntries(errors[a], 5) ELSE errors[a])
              /\ conversations'[a] = (IF Len(conversations[a]) > 20
                                      THEN LastEntries(conversations[a], 10)
                                      ELSE conversations[a]) ]_vars

LoopLeft == loop_pc \in {"interrupted", "finished"}

\* run_system_loop has reached its while: the demonstration session is kept
LoopEntered == multi_agent_sessions # << >>

\* C18, as stated: the loop is left only in response to an interrupt.
C18_LoopLeftOnlyOnInterrupt == LoopLeft => loop_pc = "interrupted"

\* a step in which Ctrl+C takes either system out of its try block
InterruptStep ==
    \/ interrupt
    \/ dispatch_interrupted
    \/ \E o \in PostOutcomes : task_interrupted(o)
    \/ maintenance_interrupted
    \/ main_interrupt
    \/ monitor_agents_interrupted
    \/ \E k \in 1..Len(agent_order) : execute_autonomous_tasks_interrupted(AllReturn, k)

\* C18 (checked under SpecSystems, for both programs): the loop is never
\* left because of a failure: an exception raised in a cycle takes the loop
\* to its backoff, with the cycle counter unchanged, and from there to
\* another cycle; the loop is left only by an interrupt, wherever in the
\* cycle or in the backoff it comes, or, in main_enhanced.py only, at the
\* end of the sleep of the tenth completed cycle.
C18_LoopSurvivesFailures ==
    /\ [](RunsMain => loop_pc # "finished")
    /\ [][ /\ faults' # faults =>
                 /\ InCycle
                 /\ loop_pc' = "backoff"
                 /\ loop_count' = loop_count
           /\ (loop_pc = "backoff" /\ loop_pc' # "backoff") =>
                 /\ loop_pc' \in {"cycle", "interrupted"}
                 /\ loop_count' = loop_count
           /\ ((InCycle \/ loop_pc = "backoff") /\ LoopLeft') =>
                 /\ faults' = faults
                 /\ \/ loop_pc' = "interrupted" /\ InterruptStep
                    \/ /\ loop_pc' = "finished"
                       /\ next_cycle
                       /\ loop_count' = cycle_limit ]_vars

C18_Witness ==
    /\ RunsMain
    /\ loop_pc = "sleep"
    /\ loop_count = MaxMainCycles - 1
    /\ faults = MaxFaults
    /\ tasks_completed["cybershell"] = MaxMainCycles + MaxFaults
    /\ tasks_completed[Unguarded] = MaxMainCycles
    /\ tasks_completed["marketing"] = MaxMainCycles

\* C19: when the loop is left because of an interrupt, the cycle in progress
\* has completed all of its phases.
C19_InterruptAtCycleBoundary ==
    (loop_pc = "interrupted" /\ LoopEntered) =>
        /\ {"dispatch", "maintenance"} \subseteq cycle.phases
        /\ loop_count % 3 = 0 => "status" \in cycle.phases

\* C25 (checked under SpecUsers, with either key set or not): once initialize
\* has completed, no step (a task given to an agent, as a loop cycle does, a
\* generate_response call made for it or for the scenario, an answer or a
\* failure of a remote tier) changes a reachability flag; a remote tier
\* that counts a failure stays reachable, and every call is routed by
\* select_api on the flags as the probe left them.
C25_FlagsSetOnlyByProbe ==
    [][ /\ init_pc = "done" =>
              /\ camel_ai_enabled' = camel_ai_enabled
              /\ llm7_enabled' = llm7_enabled
              /\ \A t \in RemoteTiers : EnabledOf(t)' = probe_enables(probe_result[t])
        /\ \A t \in RemoteTiers : stats'[t].errors > stats[t].errors => EnabledOf(t)'
        /\ \A c \in Callers :
              (calls'[c] # calls[c] /\ calls'[c].pc # "idle") =>
                  (calls[c].selected = "" \/ calls'[c].selected = calls[c].selected) ]_vars

C25_Witness ==
    /\ camel_ai_enabled
    /\ ~llm7_enabled
    /\ probe_result["llm7"] = "status_other"
    /\ stats["camel_ai"].errors = MaxPostFailures
    /\ stats["camel_ai"].requests = 4
    /\ tasks_completed[Instance] = 1
    /\ conversations[Instance][1].result.api_used = "local"
    /\ calls[Instance].selected = "camel_ai"
    /\ Suspended(calls[Instance])
    /\ Len(session.messages) = 1
    /\ session.messages[1].api_used = "local"
    /\ calls[Coordinator].selected = "camel_ai"
    /\ Suspended(calls[Coordinator])

\* C28: in every cycle the metrics phase comes before the dispatch, and it
\* has stored under 'active_agents' the number of active agents and under
\* 'total_tasks_completed' a total of completed tasks, as integers.
C28_CycleStoresMetrics ==
    (loop_pc \in {"awaiting_task", "maintenance", "sleep"}) =>
        /\ data["active_agents"].present
        /\ data["total_tasks_completed"].present
        /\ data["active_agents"].value =
              [class |-> "int", repr |-> ToString(Cardinality(cycle.active_at_dispatch))]
        /\ data["total_tasks_completed"].type = "int"
        /\ loop_pc = "sleep" =>
              data["total_tasks_completed"].value.repr \in
                  {ToString(n) : n \in 0..TotalTasks(agents)}

AgentRuntimeState(a) == <<status[a], tasks_completed[a], errors[a], conversations[a]>>

\* a step of agent a's own initialize
OwnInitialize(a) ==
    \/ initialize_agents(a)
    \/ initialize_agents_return(a)
    \/ initialize_agents_interrupted(a, "ok")

\* a step of agent a's own execute_task
OwnExecuteTask(a) ==
    /\ \/ execute_enhanced_autonomous_tasks
       \/ dispatch_interrupted
       \/ \E o \in PostOutcomes : task_answer(o) \/ task_interrupted(o)
    /\ cycle'.dispatched = <<a>>

\* C30: an agent's status, tasks_completed, error log and conversation
\* history change only in steps of that agent's own initialize and
\* execute_task: not in a step of the loop, of maintenance, of the scenario
\* coordinator, of the router or of shutdown.
C30_OnlyOwnOperationsChangeAgent ==
    [][ \A a \in Agents :
            AgentRuntimeState(a)' # AgentRuntimeState(a) =>
                (OwnInitialize(a) \/ OwnExecuteTask(a)) ]_vars

C32_Snapshot ==
    LET snapshot == get_enhanced_system_status
    IN  /\ data["system_start_time"].present =>
              /\ DOMAIN snapshot.agent_statuses = agents
              /\ \A a \in agents : snapshot.agent_statuses[a] \in {"active", "terminated"}
              /\ snapshot.active_agents <= snapshot.total_agents
        /\ \A a \in Agents : status[a] \in {"initializing", "error"} => a \notin agents
        /\ loop_pc \notin {"terminated", "aborted"} =>
              \A a \in agents : status[a] = "active"
        /\ loop_pc = "terminated" => \A a \in agents : status[a] = "terminated"
        /\ loop_pc = "aborted" =>
              \A i, j \in 1..Len(registered) :
                  (i < j /\ status[registered[j]] = "terminated") =>
                      status[registered[i]] = "terminated"

\* C32 (checked under SpecRegistry): an agent is registered only in the step
\* in which its initialize returns True, with status 'active'; a registered
\* agent stays registered and stays 'active' until shutdown, whose loop
\* leaves every registered agent 'terminated' (interrupted, the loop has
\* terminated the first agents of the registry and left the others
\* 'active'); so the snapshot's mapping never shows 'initializing' or
\* 'error', and its active count is at most its total.
C32_RegistryHoldsInitializedAgents ==
    /\ []C32_Snapshot
    /\ [][ /\ agents \subseteq agents'
           /\ \A a \in agents' :
                 IF shutdown_agents THEN status'[a] = "terminated"
                 ELSE IF \E k \in 0..Len(agent_order) : shutdown_interrupted(k)
                 THEN status'[a] \in {"active", "terminated"}
                 ELSE IF a \in agents THEN status'[a] = status[a]
                 ELSE status'[a] = "active" /\ agent_ret'[a].value = "True" ]_vars

C32_Witness ==
    /\ status["cybershell"] = "error"
    /\ agents = Agents \ {"cybershell"}
    /\ status["data_sync"] = "terminated"
    /\ loop_pc = "terminated"
    /\ loop_count = cycle_limit
    /\ get_enhanced_system_status.total_agents = 13
    /\ get_enhanced_system_status.active_agents = 0
    /\ get_enhanced_system_status.total_tasks_completed = cycle_limit

\* a step in which an execute_task call of agent a ends with 'success'
C34_TaskSucceeds(a) ==
    /\ \E t \in TaskInputs : log_task(a, t)
    /\ agent_ret'[a].value = "success"

\* C34 (checked under SpecMaintenance): tasks_completed goes up by one in
\* exactly the steps in which execute_task returns 'success' and changes in
\* no other step (a failed task, initialize, a maintenance pass that trims
\* the history or not); it is never below the length of the history.
C34_TasksCompletedCountsSuccesses ==
    /\ [](\A a \in Agents : tasks_completed[a] >= Len(conversations[a]))
    /\ [][ \A a \in Agents :
              /\ tasks_completed'[a] >= tasks_completed[a]
              /\ tasks_completed'[a] =
                    tasks_completed[a] + (IF C34_TaskSucceeds(a) THEN 1 ELSE 0)
              /\ C34_TaskSucceeds(a) => conversations'[a] # conversations[a] ]_vars

C34_Witness ==
    /\ tasks_completed[Maintained] = 21
    /\ Len(conversations[Maintained]) = 10
    /\ Len(errors[Maintained]) = 2
    /\ status[Maintained] = "error"
    /\ agent_ret[Maintained].value = "error"

C35_CyclesCounted ==
    /\ loop_count \in 0..cycle_limit
    /\ Len(multi_agent_sessions) <= 1
    /\ loop_pc = "startup" => ~LoopEntered
    /\ (InCycle \/ loop_pc \in {"backoff", "finished"}) => LoopEntered
    /\ loop_pc = "finished" => loop_count = cycle_limit
    /\ (agents # {} /\ loop_pc \in {"cycle", "finished"}) =>
          TotalTasks(agents) = loop_count + faults

\* C35 (checked under SpecCycles): the loop runs the demonstration scenario
\* once, counts a cycle only at the end of its sleep, after all of its
\* phases, and not in the handler of a cycle that raised, and ends by itself
\* exactly when the count reaches 10; as the failing cycles are finitely
\* many, the loop is eventually left.
C35_LoopEndsAfterTenCycles ==
    /\ []C35_CyclesCounted
    /\ [][ /\ loop_count' # loop_count =>
                 /\ loop_count' = loop_count + 1
                 /\ loop_pc = "sleep"
                 /\ {"dispatch", "maintenance"} \subseteq cycle.phases
                 /\ faults' = faults
           /\ faults' # faults => (loop_count' = loop_count /\ loop_pc' = "backoff")
           /\ (loop_pc # "finished" /\ loop_pc' = "finished") =>
                 (loop_count = cycle_limit - 1 /\ loop_count' = cycle_limit) ]_vars
    /\ <>LoopLeft

C35_Witness ==
    /\ loop_pc = "finished"
    /\ loop_count = cycle_limit
    /\ faults = MaxFaults
    /\ agents = Agents
    /\ tasks_completed["cybershell"] = cycle_limit + MaxFaults
    /\ tasks_completed["data_sync"] = 0
    /\ Len(multi_agent_sessions) = 1

\* whether `short` is the end of `log`: its most recent entries, in order
IsSuffix(short, log) ==
    /\ Len(short) <= Len(log)
    /\ short = SubSeq(log, Len(log) - Len(short) + 1, Len(log))

C33_LogBound ==
    \A a \in Agents :
        /\ Len(errors[a]) <= 11
        /\ (loop_pc \in {"sleep", "cycle", "dispatch"} \/ "maintenance" \in cycle.phases) =>
              Len(errors[a]) <= 10

\* C33 (checked under SpecMain): in main.py's loop an agent's error log
\* never holds more than 11 entries, and at most 10 from the end of a
\* maintenance pass to the next dispatch (an interrupt between the dispatch
\* and the pass leaves the 11); a dispatch, completed or interrupted,
\* appends at most one entry per agent; a maintenance pass leaves a log of
\* at most 10 entries alone and cuts a longer one to its last 5, in their
\* order; no other step changes a log.
C33_ErrorLogStaysBounded ==
    /\ []C33_LogBound
    /\ [][ IF main_system_maintenance
           THEN \A a \in Agents :
                   /\ IsSuffix(errors'[a], errors[a])
                   /\ Len(errors'[a]) = (IF Len(errors[a]) > 10 THEN 5 ELSE Len(errors[a]))
           ELSE IF loop_pc = "dispatch"
           THEN \A a \in Agents :
                   \/ errors'[a] = errors[a]
                   \/ /\ Len(errors'[a]) = Len(errors[a]) + 1
                      /\ IsSuffix(errors[a], SubSeq(errors'[a], 1, Len(errors[a])))
           ELSE errors' = errors ]_vars

C33_Witness ==
    /\ loop_pc = "sleep"
    /\ loop_count = 11
    /\ errors[Maintained] =
          << process_error(6), process_error(8), process_error(9), process_error(10),
             process_error(11) >>
    /\ tasks_completed[Maintained] = 1
    /\ data["total_tasks_completed"].value = PyInt(144)

(***************************************************************************)
(* Properties of the memory bus (checked under SpecMemory).                *)
(***************************************************************************)
\* C20: store(k, v) makes retrieve(k) return v, whatever was stored under k
\* before, records the class name of v as the entry's type, and leaves every
\* other key's entry unchanged; no other step changes an entry, so retrieve
\* returns the value of the most recent store.
C20_StoreRetrieveRoundTrip ==
    [][ /\ \A k \in MemoryKeys, v \in PyValues :
              store(k, v) =>
                  /\ retrieve(k)' = v
                  /\ data'[k].type = v.class
                  /\ \A j \in MemoryKeys \ {k} : data'[j] = data[j]
        /\ (\A k \in MemoryKeys, v \in PyValues : ~store(k, v)) => data' = data
        /\ \A k \in MemoryKeys :
              (retrieve_call(k) /\ data[k].present) => retrieved'.value = data[k].value ]_vars

C20_Witness ==
    /\ data["active_agents"].present
    /\ data["active_agents"].timestamp = 1
    /\ data["active_agents"].value = [class |-> "str", repr |-> "14"]
    /\ data["active_agents"].type = "str"
    /\ retrieved = [key |-> "active_agents", value |-> [class |-> "str", repr |-> "14"]]
    /\ data["system_start_time"].timestamp = 0
    /\ data["system_start_time"].type = "datetime"

\* C21: retrieve of a key that was never stored returns None, and retrieve
\* never modifies the store: no entry is created for the key and no entry's
\* value, timestamp or type changes.
C21_RetrieveIsReadOnly ==
    [][ \A k \in MemoryKeys :
          retrieve_call(k) =>
              /\ data' = data
              /\ ~data[k].present =>
                    (retrieved' = [key |-> k, value |-> PyNone] /\ ~data'[k].present) ]_vars

C21_Witness ==
    /\ retrieved = [key |-> "active_agents", value |-> PyNone]
    /\ ~data["active_agents"].present
    /\ data["system_start_time"].present
    /\ data["system_start_time"].timestamp = 1

\* the subscribers registered for a topic, in registration order
Registered(topic) ==
    IF subscribers[topic].registered THEN subscribers[topic].callbacks ELSE << >>

\* C22: publish(topic, message) returns to the publisher, whatever the
\* subscribers do, having invoked every subscriber registered for the topic
\* exactly once, in registration order, with the message, and no subscriber
\* of another topic; with no subscriber it does nothing.
C22_PublishDeliversToAll ==
    published.outcome # "none" =>
        /\ published.outcome = "returned"
        /\ Len(delivered) = Len(Registered(published.topic))
        /\ \A i \in 1..Len(delivered) :
              /\ delivered[i].callback = Registered(published.topic)[i].name
              /\ delivered[i].message = published.message

C22_Witness ==
    /\ published = [outcome |-> "returned", topic |-> "metrics", message |-> "m2"]
    /\ subscribers["metrics"].callbacks =
          << [name |-> "s1", raises |-> TRUE], [name |-> "s2", raises |-> FALSE] >>
    /\ subscribers["alerts"].callbacks = << [name |-> "s2", raises |-> FALSE] >>
    /\ delivered = << [callback |-> "s1", message |-> "m2", logged |-> TRUE],
                      [callback |-> "s2", message |-> "m2", logged |-> FALSE] >>

(***************************************************************************)
(* Properties of the memory bus under threads (checked under SpecThreads). *)
(***************************************************************************)
\* the threads inside store or retrieve: past the lock's __enter__, not yet
\* past its __exit__
Inside == {t \in Threads : threads[t].pc \in {"body", "exit"}}

C23_MutualExclusion ==
    /\ Cardinality(Inside) <= 1
    /\ lock <=> Inside # {}
    /\ \A k \in MemoryKeys :
          data[k].present =>
              /\ data[k].type = data[k].value.class
              /\ data[k].timestamp <= clock
    /\ retrieved.key # "" =>
          \/ retrieved.value = PyNone
          \/ retrieved.value \in ThreadValues

\* C23: with store and retrieve called from OS threads, at most one thread
\* is inside either operation, the lock is held exactly while a thread is
\* inside, every entry's value and type tag come from one store call, and
\* the lock is released on every exit path: whenever it is held it is
\* eventually free again, after a body that returned and after one that raised.
C23_StoreRetrieveExcludeEachOther ==
    /\ []C23_MutualExclusion
    /\ lock ~> ~lock
    /\ \A t \in Threads : (threads[t].pc \in {"body", "exit"}) ~> (threads[t].pc = "idle")

C23_Witness ==
    /\ threads["t1"] = [IdleThread EXCEPT !.outcome = "TypeError"]
    /\ threads["t2"].pc = "body"
    /\ threads["t2"].op = "retrieve"
    /\ threads["t2"].key = "active_agents"
    /\ lock
    /\ data["active_agents"].present
    /\ retrieved = [key |-> "active_agents", value |-> PyNone]

=============================================================================
